---- MODULE Spec2Model ----
(***************************************************************************)
(* Job orchestration of the MakerWorld crawl / label worker.               *)
(*                                                                         *)
(* One job record is followed through one process lifetime: it is either   *)
(* a crawl job (runCrawlJob: discovery producer, work queue, worker pool)  *)
(* or a label job (runLabelJob: candidate selection, sequential loop).     *)
(* The control surface (pause, resume, clear history) acts on the record   *)
(* at any moment.  Every await of the source is a point where the other    *)
(* tasks may run, so every action below is the code between two awaits.    *)
(***************************************************************************)
EXTENDS Integers, Sequences, FiniteSets, TLC

\* ------------------------------------------------------------------ bounds
MaxIds == 2          \* distinct model identities the listing can show
MaxPool == 2         \* largest configured concurrency explored
MaxScrolls == 1      \* largest configured maxScrolls explored
MaxResp == 1         \* API responses observed by the network strategy
MaxCtl == 1          \* requests served by the control surface
MaxJobs == 3         \* job rows in the store at process start
MaxClock == 3        \* writes to one models row that are followed
MaxRequests == 2     \* requests served over the job tables that are followed
MaxDeepScrolls == 2  \* config.maxScrolls where the scroll loop is followed with one worker
MaxRestarts == 1     \* process restarts that re-run a label job
MaxOldJobs == 1      \* job rows found at process start where create requests are followed
MaxConfigured == 30  \* largest magnitude of a stored config.concurrency where the pool is sized

\* ------------------------------------------------------- program constants
PoolCap == 5                 \* Math.min(5, ...)
DirectMatchThreshold == 20   \* newItems.length < 20
JsonMatchCap == 200          \* cnt >= 200
LabelImageNeed == 2          \* imageUrls.length < 2

\* Ranges that follow from the bounds: a cap or a batch larger than the number
\* of identities, or more images than the label job asks for, adds no case.
MaxLimit == MaxIds
MaxBatch == MaxIds
MaxImgs == LabelImageNeed

Ids == 1..MaxIds
Workers == 1..MaxPool

NULL == "NULL"
NoRow == "NO_ROW"
SET == "SET"
Status == {"queued", "running", "paused", "completed", "failed"}
NoWorker == 0
NoItem == 0
NoJob == 0
JobIds == 1..MaxJobs

VARIABLES
  kind,              \* "crawl" or "label": which job kind this record is
  concurrency,       \* config.concurrency (crawl)
  limitModels,       \* config.limitModels (crawl) / config.limit (label, 0 = null)
  maxScrolls,        \* config.maxScrolls (crawl)
  status,            \* job row
  started_at,
  finished_at,
  last_error,
  discovered_count,
  total_count,
  processed_count,
  failed_count,
  models,            \* ids of the rows of table models
  model_images,      \* id -> number of rows of table model_images
  model_labels,      \* the rows of table model_labels: [model_id, grade]
  mpc,               \* position of the job function (runCrawlJob / runLabelJob)
  scrollI,           \* i of the discovery loop
  discoveredIds,
  queue,
  queueIndex,
  discoveryDone,
  wake,              \* the worker whose resolver the wake slot holds
  wpc,               \* position of each crawl worker
  cur,               \* the candidate each worker holds
  batch,             \* newItems of the current scroll iteration
  enrich,            \* enrichItems of the current scroll iteration
  rpc,               \* position of the onResponse handler in flight
  rItems,            \* items of the onResponse handler in flight
  respN,             \* responses observed so far
  candidates,        \* label job: the selected rows
  rowI,              \* label job: index of the current row
  imageUrls,         \* label job: number of image urls in hand for the row
  ctlN,              \* requests the control surface has served so far
  takesSinceFailed,  \* history: candidates each worker took while status was failed
  startsSinceStop,   \* history: items each loop started since the status left running
  issued,            \* history: the increments issued so far, per counter
  jobs,              \* process start: the job rows, in the order of created_at
  atBoot,            \* history: the job rows as the process found them
  invoked,           \* process start: loop invocations scheduled, per job
  bpc,               \* position of the recovery function resume()
  picked,            \* the job the recovery's select returned
  restarts,          \* process restarts that re-ran this job so far
  item,              \* the rows of table models with one id (none or one), by field
  item_images,       \* the urls of its rows of table model_images, by idx
  now,               \* the clock behind nowIso()
  lastScraped,       \* history: the payload applied last, if the last write was one
  refresh,           \* image refresh: position and image list of each writer
  image_rows,        \* image refresh: the rows of model_images of the one id
  configured,        \* pool sizing: config.concurrency as the job row holds it
  spawned            \* pool sizing: <<n>> once Array.from made n worker() calls

jobVars == <<status, started_at, finished_at, last_error, discovered_count,
             total_count, processed_count, failed_count>>
storeVars == <<models, model_images, model_labels>>
configVars == <<kind, concurrency, limitModels, maxScrolls>>
queueVars == <<discoveredIds, queue, queueIndex, discoveryDone, wake>>
workerVars == <<wpc, cur>>
producerVars == <<mpc, scrollI, batch, enrich>>
respVars == <<rpc, rItems, respN>>
labelVars == <<candidates, rowI, imageUrls>>
histVars == <<takesSinceFailed, startsSinceStop, issued>>
envVars == <<ctlN>>

bootVars == <<jobs, atBoot, invoked, bpc, picked, restarts>>
rowVars == <<item, item_images, now, lastScraped, refresh, image_rows, configured, spawned>>

mainVars == <<jobVars, storeVars, configVars, queueVars, workerVars, producerVars,
              respVars, labelVars, histVars, envVars>>

vars == <<mainVars, bootVars, rowVars>>

\* ----------------------------------------------------------------- helpers
Range(s) == {s[i] : i \in 1..Len(s)}

Min(a, b) == IF a < b THEN a ELSE b

Max(a, b) == IF a > b THEN a ELSE b

NoDup(s) == \A i, j \in 1..Len(s) : i # j => s[i] # s[j]

\* Sequences over S of length at most n.
SeqUpTo(S, n) == UNION {[1..k -> S] : k \in 0..n}

\* Math.max(1, Number(config.concurrency) || 1): the pool without Math.min.
PoolSizeUncapped(c) == Max(1, IF c = 0 THEN 1 ELSE c)

\* Math.max(1, Math.min(5, Number(config.concurrency) || 1))
PoolSize(c) == Max(1, Min(PoolCap, IF c = 0 THEN 1 ELSE c))

Pool == 1..PoolSize(concurrency)

\* ------------------------------------------------------------ control loop
\* A poll that only tells paused from the rest: any other status proceeds.
ProceedUnlessPaused(current) ==
  IF current = NoRow THEN "cancel"
  ELSE IF current = "paused" THEN "wait"
  ELSE "go"

\* One poll of waitIfPausedOrCancelled on the row it read:
\* "cancel" = throw JOB_CANCELLED, "wait" = sleep and poll again, "go" = return.
Proceed(current) ==
  IF current = NoRow THEN "cancel"
  ELSE IF current = "paused" THEN "wait"
  ELSE IF current # "running" THEN "cancel"
  ELSE "go"

\* The row the poll selects; no operation of the program deletes a job row.
SelectStatus == status

\* updateStatus(status, patch): one UPDATE of the job row.
UpdateStatus(s, fin, err) ==
  /\ status' = s
  /\ finished_at' = fin
  /\ last_error' = err

\* ------------------------------------------------------------- work queue
\* push(items): append, then call and clear the wake slot.
Push(items) ==
  IF Len(items) = 0
  THEN UNCHANGED <<queue, wake, wpc>>
  ELSE /\ queue' = queue \o items
       /\ IF wake # NoWorker
          THEN /\ wpc' = [wpc EXCEPT ![wake] = "take"]
               /\ wake' = NoWorker
          ELSE UNCHANGED <<wake, wpc>>

\* getNext(): what the loop body does when it runs for worker w.
\* "item" = return queue[queueIndex++], "none" = return null, "block" = park
\* the resolver in the wake slot.
GetNext ==
  IF queueIndex < Len(queue) THEN "item"
  ELSE IF discoveryDone THEN "none"
  ELSE "block"

\* ------------------------------------------------------ discovery producer
\* A scan of the direct matches that never tests the cap.
RECURSIVE ScanMatchesUncapped(_, _, _, _)
ScanMatchesUncapped(ms, seen, acc, cap) ==
  IF ms = <<>> THEN [seen |-> seen, new |-> acc]
  ELSE IF Head(ms) \in seen THEN ScanMatchesUncapped(Tail(ms), seen, acc, cap)
  ELSE ScanMatchesUncapped(Tail(ms), seen \cup {Head(ms)}, Append(acc, Head(ms)), cap)

\* The while loop of addFromText over the direct reference matches.
RECURSIVE ScanMatches(_, _, _, _)
ScanMatches(ms, seen, acc, cap) ==
  IF ms = <<>> THEN [seen |-> seen, new |-> acc]
  ELSE IF Head(ms) \in seen THEN ScanMatches(Tail(ms), seen, acc, cap)
  ELSE IF Cardinality(seen) >= cap THEN [seen |-> seen, new |-> acc]
  ELSE ScanMatches(Tail(ms), seen \cup {Head(ms)}, Append(acc, Head(ms)), cap)

\* The while loop of addFromText over the id/cover pairs of JSON text.
RECURSIVE ScanJson(_, _, _, _, _)
ScanJson(ms, seen, acc, cap, cnt) ==
  IF ms = <<>> THEN [seen |-> seen, new |-> acc]
  ELSE IF Head(ms) \in seen THEN ScanJson(Tail(ms), seen, acc, cap, cnt)
  ELSE IF Cardinality(seen) >= cap THEN [seen |-> seen, new |-> acc]
  ELSE IF cnt + 1 >= JsonMatchCap
       THEN [seen |-> seen \cup {Head(ms)}, new |-> Append(acc, Head(ms))]
  ELSE ScanJson(Tail(ms), seen \cup {Head(ms)}, Append(acc, Head(ms)), cap, cnt + 1)

\* addFromText(text): text.urls are the direct matches in order, text.json the
\* id/cover pairs in order.
AddFromText(text, seen, cap) ==
  LET p1 == ScanMatches(text.urls, seen, <<>>, cap)
  IN IF Len(p1.new) < DirectMatchThreshold
     THEN ScanJson(text.json, p1.seen, p1.new, cap, 0)
     ELSE p1

\* The for loop over domItems without the lookup in discoveredIds.
RECURSIVE ScanDomNoLookup(_, _, _, _, _)
ScanDomNoLookup(items, seen, new, enr, cap) ==
  IF items = <<>> THEN [seen |-> seen, new |-> new, enrich |-> enr]
  ELSE IF Cardinality(seen) >= cap THEN [seen |-> seen, new |-> new, enrich |-> enr]
  ELSE ScanDomNoLookup(Tail(items), seen \cup {Head(items).id},
                       Append(new, Head(items).id), enr, cap)

\* The for loop over domItems: an item is [id, meta], meta = it carries a
\* cover, a title or an author.
RECURSIVE ScanDom(_, _, _, _, _)
ScanDom(items, seen, new, enr, cap) ==
  IF items = <<>> THEN [seen |-> seen, new |-> new, enrich |-> enr]
  ELSE IF Head(items).id \in seen
       THEN ScanDom(Tail(items), seen, new,
                    IF Head(items).meta THEN Append(enr, Head(items).id) ELSE enr, cap)
  ELSE IF Cardinality(seen) >= cap THEN [seen |-> seen, new |-> new, enrich |-> enr]
  ELSE ScanDom(Tail(items), seen \cup {Head(items).id},
               Append(new, Head(items).id), enr, cap)

\* Response texts and rendered DOM passes the listing can produce.
Texts == [urls : SeqUpTo(Ids, MaxBatch), json : SeqUpTo(Ids, 1)]

DomItem == [id : Ids, meta : BOOLEAN]

DomPasses == {s \in SeqUpTo(DomItem, MaxBatch) :
                \A i, j \in 1..Len(s) : i # j => s[i].id # s[j].id}

\* persistDiscovered(items): upsert one models row per item.
PersistDiscovered(items) == models' = models \cup Range(items)

\* The browser context is open from createContext to the finally block.
ContextOpen == mpc \in {"nav", "dcheck", "eval", "enrich", "dpersist", "dcount",
                        "closing", "join"}

\* listPage.on("response") .. listPage.off("response")
Listening == mpc \in {"nav", "dcheck", "eval", "enrich", "dpersist", "dcount"}

\* The scraped images replace the stored ones: DELETE where model_id = id, then
\* INSERT of n rows.  The INSERT needs the models row (foreign key); without it
\* it throws and no image row is stored.
ReplaceImages(id, n) ==
  model_images' = [model_images EXCEPT ![id] = IF id \in models THEN n ELSE 0]

\* Whether the INSERT of the n scraped images went through (none is attempted
\* for an empty list).
InsertImagesOk(id, stored) == id \in models \/ stored = 0

\* ---------------------------------------------------------------- history
ZeroTakes == [w \in Workers |-> 0]

NoneIssued == [discovered |-> 0, processed |-> 0, failed |-> 0]

\* The loops that start items: the crawl workers and the for loop of
\* runLabelJob.
LabelLoop == 0

Loops == Workers \cup {LabelLoop}

ZeroStarts == [l \in Loops |-> 0]

\* Loop l starts an item: counted while the status is not running.
StartCounted(l) ==
  startsSinceStop' = IF status # "running"
                     THEN [startsSinceStop EXCEPT ![l] = @ + 1]
                     ELSE startsSinceStop

\* The takes counted while the status is failed start again at every status
\* write that leaves failed.
HistOnStatus(s) ==
  /\ takesSinceFailed' = IF s = "failed" THEN takesSinceFailed ELSE ZeroTakes
  /\ startsSinceStop' = IF s = "running" THEN ZeroStarts ELSE startsSinceStop

\* ------------------------------------------------------------ crawl: main
\* runCrawlJob entered (the setTimeout of create-job fired): the row is read
\* and updateStatus("running") is written whatever the row's status is.
CStart ==
  /\ kind = "crawl" /\ mpc = "idle"
  /\ UpdateStatus("running", finished_at, NULL)
  /\ started_at' = SET
  /\ HistOnStatus("running")
  /\ UNCHANGED issued
  /\ mpc' = "ctx"
  /\ UNCHANGED <<discovered_count, total_count, processed_count, failed_count,
                 storeVars, configVars, bootVars, rowVars, queueVars, workerVars, scrollI, batch, enrich,
                 respVars, labelVars, envVars>>

\* createContext returned: the workers are spawned (each runs up to its first
\* poll) and the list page is opened.
CContext ==
  /\ kind = "crawl" /\ mpc = "ctx"
  /\ mpc' = "nav"
  /\ wpc' = [w \in Workers |-> IF w \in Pool THEN "check" ELSE "none"]
  /\ UNCHANGED <<jobVars, storeVars, configVars, bootVars, rowVars, queueVars, cur, scrollI, batch,
                 enrich, respVars, labelVars, histVars, envVars>>

\* createContext threw: the outer catch writes failed.
CContextFail ==
  /\ kind = "crawl" /\ mpc = "ctx"
  /\ UpdateStatus("failed", SET, "ERR")
  /\ HistOnStatus("failed")
  /\ UNCHANGED issued
  /\ mpc' = "failed"
  /\ UNCHANGED <<started_at, discovered_count, total_count, processed_count,
                 failed_count, storeVars, configVars, bootVars, rowVars, queueVars, workerVars, scrollI,
                 batch, enrich, respVars, labelVars, envVars>>

\* goto / waitForTimeout / innerText returned and the sample shows no challenge.
CNav ==
  /\ kind = "crawl" /\ mpc = "nav"
  /\ mpc' = "dcheck"
  /\ UNCHANGED <<jobVars, storeVars, configVars, bootVars, rowVars, queueVars, workerVars, scrollI,
                 batch, enrich, respVars, labelVars, histVars, envVars>>

\* The sample of the list page shows a challenge marker: failed, return.
CNavBlocked ==
  /\ kind = "crawl" /\ mpc = "nav"
  /\ UpdateStatus("failed", SET, "CLOUDFLARE_BLOCKED")
  /\ HistOnStatus("failed")
  /\ UNCHANGED issued
  /\ mpc' = "failed"
  /\ UNCHANGED <<started_at, discovered_count, total_count, processed_count,
                 failed_count, storeVars, configVars, bootVars, rowVars, queueVars, workerVars, scrollI,
                 batch, enrich, respVars, labelVars, envVars>>

\* A call on the list page (goto, evaluate, mouse.wheel, close) threw: the
\* finally block closes the context and the outer catch writes failed.
CThrow ==
  /\ kind = "crawl" /\ mpc \in {"nav", "eval", "closing"}
  /\ UpdateStatus("failed", SET, "ERR")
  /\ HistOnStatus("failed")
  /\ UNCHANGED issued
  /\ mpc' = "failed"
  /\ UNCHANGED <<started_at, discovered_count, total_count, processed_count,
                 failed_count, storeVars, configVars, bootVars, rowVars, queueVars, workerVars, scrollI,
                 batch, enrich, respVars, labelVars, envVars>>

\* End of input: discoveryDone = true, the wake slot is called and cleared,
\* listPage.off.
EndOfInput ==
  /\ discoveryDone' = TRUE
  /\ IF wake # NoWorker
     THEN /\ wpc' = [wpc EXCEPT ![wake] = "take"]
          /\ wake' = NoWorker
     ELSE UNCHANGED <<wake, wpc>>
  /\ mpc' = "closing"
  /\ UNCHANGED <<scrollI, queue>>

\* The tail of one scroll iteration: break on the cap, else scroll and i++.
LoopEnd(seen) ==
  IF Cardinality(seen) >= limitModels \/ scrollI + 1 >= maxScrolls
  THEN EndOfInput
  ELSE /\ scrollI' = scrollI + 1
       /\ mpc' = "dcheck"
       /\ UNCHANGED <<discoveryDone, wake, wpc, queue>>

\* waitIfPausedOrCancelled at the top of a scroll iteration.
DCheck ==
  /\ kind = "crawl" /\ mpc = "dcheck"
  /\ mpc' = CASE Proceed(SelectStatus) = "go" -> "eval"
              [] Proceed(SelectStatus) = "wait" -> "dcheck"
              [] OTHER -> "cancelled"
  /\ UNCHANGED <<jobVars, storeVars, configVars, bootVars, rowVars, queueVars, workerVars, scrollI,
                 batch, enrich, respVars, labelVars, histVars, envVars>>

\* listPage.evaluate returned domItems; newItems and enrichItems are computed.
\* Without enrichItems the new items are pushed in the same turn.
DEval ==
  /\ kind = "crawl" /\ mpc = "eval"
  /\ \E domItems \in DomPasses :
       LET r == ScanDom(domItems, discoveredIds, <<>>, <<>>, limitModels)
       IN /\ discoveredIds' = r.seen
          /\ batch' = r.new
          /\ enrich' = r.enrich
          /\ IF Len(r.enrich) > 0
             THEN /\ mpc' = "enrich"
                  /\ UNCHANGED <<queue, wake, wpc, scrollI, discoveryDone>>
             ELSE IF Len(r.new) > 0
             THEN /\ Push(r.new)
                  /\ mpc' = "dpersist"
                  /\ UNCHANGED <<scrollI, discoveryDone>>
             ELSE LoopEnd(r.seen)
  /\ UNCHANGED <<jobVars, storeVars, configVars, bootVars, rowVars, queueIndex, cur, respVars,
                 labelVars, histVars, envVars>>

\* persistDiscovered(enrichItems) returned; the new items are pushed.
DEnrich ==
  /\ kind = "crawl" /\ mpc = "enrich"
  /\ PersistDiscovered(enrich)
  /\ enrich' = <<>>
  /\ IF Len(batch) > 0
     THEN /\ Push(batch)
          /\ mpc' = "dpersist"
          /\ UNCHANGED <<scrollI, discoveryDone>>
     ELSE LoopEnd(discoveredIds)
  /\ UNCHANGED <<jobVars, model_images, model_labels, configVars, bootVars, rowVars, discoveredIds,
                 queueIndex, cur, batch, respVars, labelVars, histVars, envVars>>

\* persistDiscovered(newItems) returned.
DPersist ==
  /\ kind = "crawl" /\ mpc = "dpersist"
  /\ PersistDiscovered(batch)
  /\ mpc' = "dcount"
  /\ UNCHANGED <<jobVars, model_images, model_labels, configVars, bootVars, rowVars, queueVars,
                 workerVars, scrollI, batch, enrich, respVars, labelVars, histVars, envVars>>

\* discovered_count = discovered_count + newItems.length, then the loop tail.
DCount ==
  /\ kind = "crawl" /\ mpc = "dcount"
  /\ discovered_count' = discovered_count + Len(batch)
  /\ issued' = [issued EXCEPT !.discovered = @ + Len(batch)]
  /\ batch' = <<>>
  /\ LoopEnd(discoveredIds)
  /\ UNCHANGED <<status, started_at, finished_at, last_error, total_count,
                 processed_count, failed_count, storeVars, configVars, bootVars, rowVars, discoveredIds,
                 queueIndex, cur, enrich, respVars, labelVars, takesSinceFailed, startsSinceStop, envVars>>

\* listPage.close() returned; the job awaits workerPromise.
CClose ==
  /\ kind = "crawl" /\ mpc = "closing"
  /\ mpc' = "join"
  /\ UNCHANGED <<jobVars, storeVars, configVars, bootVars, rowVars, queueVars, workerVars, scrollI,
                 batch, enrich, respVars, labelVars, histVars, envVars>>

\* workerPromise resolved (every worker returned): updateStatus("completed").
JoinResolve ==
  /\ kind = "crawl" /\ mpc = "join"
  /\ \A w \in Pool : wpc[w] = "done"
  /\ UpdateStatus("completed", SET, last_error)
  /\ HistOnStatus("completed")
  /\ UNCHANGED issued
  /\ mpc' = "done"
  /\ UNCHANGED <<started_at, discovered_count, total_count, processed_count,
                 failed_count, storeVars, configVars, bootVars, rowVars, queueVars, workerVars, scrollI,
                 batch, enrich, respVars, labelVars, envVars>>

\* workerPromise rejected (a worker threw JOB_CANCELLED): silent return.
JoinReject ==
  /\ kind = "crawl" /\ mpc = "join"
  /\ \E w \in Pool : wpc[w] = "cancelled"
  /\ mpc' = "cancelled"
  /\ UNCHANGED <<jobVars, storeVars, configVars, bootVars, rowVars, queueVars, workerVars, scrollI,
                 batch, enrich, respVars, labelVars, histVars, envVars>>

\* --------------------------------------------------------- crawl: workers
\* One poll of waitIfPausedOrCancelled by worker w.
WCheck(w) ==
  /\ kind = "crawl" /\ wpc[w] = "check"
  /\ wpc' = [wpc EXCEPT ![w] = CASE Proceed(SelectStatus) = "go" -> "take"
                                 [] Proceed(SelectStatus) = "wait" -> "check"
                                 [] OTHER -> "cancelled"]
  /\ UNCHANGED <<jobVars, storeVars, configVars, bootVars, rowVars, queueVars, cur, producerVars,
                 respVars, labelVars, histVars, envVars>>

\* A getNext that hands out the candidate appended last.
WTakeNewest(w) ==
  /\ kind = "crawl" /\ wpc[w] = "take"
  /\ IF GetNext = "item"
     THEN /\ cur' = [cur EXCEPT ![w] = queue[Len(queue)]]
          /\ queueIndex' = queueIndex + 1
          /\ wpc' = [wpc EXCEPT ![w] = "scrape"]
          /\ takesSinceFailed' =
               IF status = "failed"
               THEN [takesSinceFailed EXCEPT ![w] = @ + 1]
               ELSE takesSinceFailed
          /\ StartCounted(w)
          /\ UNCHANGED wake
     ELSE IF GetNext = "none"
     THEN /\ wpc' = [wpc EXCEPT ![w] = "done"]
          /\ UNCHANGED <<cur, queueIndex, wake, takesSinceFailed, startsSinceStop>>
     ELSE /\ wake' = w
          /\ wpc' = [wpc EXCEPT ![w] = "blocked"]
          /\ UNCHANGED <<cur, queueIndex, takesSinceFailed, startsSinceStop>>
  /\ UNCHANGED <<jobVars, storeVars, configVars, bootVars, rowVars, discoveredIds, queue, discoveryDone,
                 producerVars, respVars, labelVars, issued, envVars>>

\* getNext() by worker w, entered after its poll or after its resolver was
\* called.
WTake(w) ==
  /\ kind = "crawl" /\ wpc[w] = "take"
  /\ IF GetNext = "item"
     THEN /\ cur' = [cur EXCEPT ![w] = queue[queueIndex + 1]]
          /\ queueIndex' = queueIndex + 1
          /\ wpc' = [wpc EXCEPT ![w] = "scrape"]
          /\ takesSinceFailed' =
               IF status = "failed"
               THEN [takesSinceFailed EXCEPT ![w] = @ + 1]
               ELSE takesSinceFailed
          /\ StartCounted(w)
          /\ UNCHANGED wake
     ELSE IF GetNext = "none"
     THEN /\ wpc' = [wpc EXCEPT ![w] = "done"]
          /\ UNCHANGED <<cur, queueIndex, wake, takesSinceFailed, startsSinceStop>>
     ELSE /\ wake' = w
          /\ wpc' = [wpc EXCEPT ![w] = "blocked"]
          /\ UNCHANGED <<cur, queueIndex, takesSinceFailed, startsSinceStop>>
  /\ UNCHANGED <<jobVars, storeVars, configVars, bootVars, rowVars, discoveredIds, queue, discoveryDone,
                 producerVars, respVars, labelVars, issued, envVars>>

\* scrapeModelPageInContext returned or threw.  With the context closed it can
\* only throw.
WScrape(w) ==
  /\ kind = "crawl" /\ wpc[w] = "scrape"
  /\ \E outcome \in IF ContextOpen THEN {"persist", "failcount", "hardblock"}
                    ELSE {"failcount"} :
       wpc' = [wpc EXCEPT ![w] = outcome]
  /\ UNCHANGED <<jobVars, storeVars, configVars, bootVars, rowVars, queueVars, cur, producerVars,
                 respVars, labelVars, histVars, envVars>>

\* UPDATE models where id = scraped.id; DELETE and INSERT of model_images.
WPersist(w) ==
  /\ kind = "crawl" /\ wpc[w] = "persist"
  /\ \E n \in 0..MaxImgs : ReplaceImages(cur[w], n)
  /\ wpc' = [wpc EXCEPT ![w] = IF InsertImagesOk(cur[w], model_images'[cur[w]])
                                THEN "count" ELSE "failcount"]
  /\ UNCHANGED <<jobVars, models, model_labels, configVars, bootVars, rowVars, queueVars, cur,
                 producerVars, respVars, labelVars, histVars, envVars>>

\* A worker that polls once before its loop and takes the next candidate
\* straight after counting.
WCountNoPoll(w) ==
  /\ kind = "crawl" /\ wpc[w] = "count"
  /\ processed_count' = processed_count + 1
  /\ issued' = [issued EXCEPT !.processed = @ + 1]
  /\ wpc' = [wpc EXCEPT ![w] = "take"]
  /\ cur' = [cur EXCEPT ![w] = NoItem]
  /\ UNCHANGED <<status, started_at, finished_at, last_error, discovered_count,
                 total_count, failed_count, storeVars, configVars, bootVars, rowVars, queueVars,
                 producerVars, respVars, labelVars, takesSinceFailed, startsSinceStop, envVars>>

\* processed_count = processed_count + 1, then the delay and the next turn.
WCount(w) ==
  /\ kind = "crawl" /\ wpc[w] = "count"
  /\ processed_count' = processed_count + 1
  /\ issued' = [issued EXCEPT !.processed = @ + 1]
  /\ wpc' = [wpc EXCEPT ![w] = "check"]
  /\ cur' = [cur EXCEPT ![w] = NoItem]
  /\ UNCHANGED <<status, started_at, finished_at, last_error, discovered_count,
                 total_count, failed_count, storeVars, configVars, bootVars, rowVars, queueVars,
                 producerVars, respVars, labelVars, takesSinceFailed, startsSinceStop, envVars>>

\* A catch that counts the failure and appends the candidate to the queue
\* again.
WFailCountRequeues(w) ==
  /\ kind = "crawl" /\ wpc[w] = "failcount"
  /\ failed_count' = failed_count + 1
  /\ issued' = [issued EXCEPT !.failed = @ + 1]
  /\ last_error' = "ERR"
  /\ queue' = Append(queue, cur[w])
  /\ wpc' = [wpc EXCEPT ![w] = "check"]
  /\ cur' = [cur EXCEPT ![w] = NoItem]
  /\ UNCHANGED <<status, started_at, finished_at, discovered_count, total_count,
                 processed_count, storeVars, configVars, bootVars, rowVars, discoveredIds,
                 queueIndex, discoveryDone, wake, producerVars, respVars, labelVars,
                 takesSinceFailed, startsSinceStop, envVars>>

\* A catch that records the message of a per-item failure without counting it.
WFailCountUncounted(w) ==
  /\ kind = "crawl" /\ wpc[w] = "failcount"
  /\ last_error' = "ERR"
  /\ wpc' = [wpc EXCEPT ![w] = "check"]
  /\ cur' = [cur EXCEPT ![w] = NoItem]
  /\ UNCHANGED <<status, started_at, finished_at, discovered_count, total_count,
                 processed_count, failed_count, storeVars, configVars, bootVars, rowVars,
                 queueVars, producerVars, respVars, labelVars, histVars, envVars>>

\* catch, any other message: failed_count + 1 and last_error.
WFailCount(w) ==
  /\ kind = "crawl" /\ wpc[w] = "failcount"
  /\ failed_count' = failed_count + 1
  /\ issued' = [issued EXCEPT !.failed = @ + 1]
  /\ last_error' = "ERR"
  /\ wpc' = [wpc EXCEPT ![w] = "check"]
  /\ cur' = [cur EXCEPT ![w] = NoItem]
  /\ UNCHANGED <<status, started_at, finished_at, discovered_count, total_count,
                 processed_count, storeVars, configVars, bootVars, rowVars, queueVars, producerVars,
                 respVars, labelVars, takesSinceFailed, startsSinceStop, envVars>>

\* A hard-block catch whose patch carries last_error only.
WHardBlockNoFinish(w) ==
  /\ kind = "crawl" /\ wpc[w] = "hardblock"
  /\ UpdateStatus("failed", finished_at, "CLOUDFLARE_BLOCKED")
  /\ HistOnStatus("failed")
  /\ UNCHANGED issued
  /\ wpc' = [wpc EXCEPT ![w] = "done"]
  /\ cur' = [cur EXCEPT ![w] = NoItem]
  /\ UNCHANGED <<started_at, discovered_count, total_count, processed_count,
                 failed_count, storeVars, configVars, bootVars, rowVars, queueVars, producerVars,
                 respVars, labelVars, envVars>>

\* catch, CLOUDFLARE_BLOCKED: updateStatus("failed") and the worker returns.
WHardBlock(w) ==
  /\ kind = "crawl" /\ wpc[w] = "hardblock"
  /\ UpdateStatus("failed", SET, "CLOUDFLARE_BLOCKED")
  /\ HistOnStatus("failed")
  /\ UNCHANGED issued
  /\ wpc' = [wpc EXCEPT ![w] = "done"]
  /\ cur' = [cur EXCEPT ![w] = NoItem]
  /\ UNCHANGED <<started_at, discovered_count, total_count, processed_count,
                 failed_count, storeVars, configVars, bootVars, rowVars, queueVars, producerVars,
                 respVars, labelVars, envVars>>

\* ------------------------------------------------- crawl: network strategy
\* onResponse entered for a response of the list page: the cap is not reached
\* and the handler awaits the headers and the text.
RespArrive ==
  /\ kind = "crawl" /\ Listening
  /\ rpc = "idle" /\ respN < MaxResp
  /\ Cardinality(discoveredIds) < limitModels
  /\ rpc' = "text"
  /\ respN' = respN + 1
  /\ UNCHANGED <<jobVars, storeVars, configVars, bootVars, rowVars, queueVars, workerVars,
                 producerVars, rItems, labelVars, histVars, envVars>>

\* resp.text() returned: addFromText, push.  After the page is closed the read
\* throws and the handler ends.
RespText ==
  /\ kind = "crawl" /\ rpc = "text"
  /\ IF mpc \in {"nav", "dcheck", "eval", "enrich", "dpersist", "dcount", "closing"}
     THEN \E text \in Texts :
            LET r == AddFromText(text, discoveredIds, limitModels)
            IN /\ discoveredIds' = r.seen
               /\ Push(r.new)
               /\ rItems' = r.new
               /\ rpc' = IF Len(r.new) > 0 THEN "persist" ELSE "idle"
     ELSE /\ rpc' = "idle"
          /\ UNCHANGED <<discoveredIds, queue, wake, wpc, rItems>>
  /\ UNCHANGED <<jobVars, storeVars, configVars, bootVars, rowVars, queueIndex, discoveryDone, cur,
                 producerVars, respN, labelVars, histVars, envVars>>

\* persistDiscovered(items) of the handler returned.
RespPersist ==
  /\ kind = "crawl" /\ rpc = "persist"
  /\ PersistDiscovered(rItems)
  /\ rpc' = "count"
  /\ UNCHANGED <<jobVars, model_images, model_labels, configVars, bootVars, rowVars, queueVars,
                 workerVars, producerVars, rItems, respN, labelVars, histVars, envVars>>

\* A handler that writes its own tally instead of adding it.
RespCountWritesTally ==
  /\ kind = "crawl" /\ rpc = "count"
  /\ discovered_count' = Len(rItems)
  /\ issued' = [issued EXCEPT !.discovered = @ + Len(rItems)]
  /\ rItems' = <<>>
  /\ rpc' = "idle"
  /\ UNCHANGED <<status, started_at, finished_at, last_error, total_count,
                 processed_count, failed_count, storeVars, configVars, bootVars, rowVars, queueVars,
                 workerVars, producerVars, respN, labelVars, takesSinceFailed, startsSinceStop, envVars>>

\* discovered_count = discovered_count + items.length of the handler.
RespCount ==
  /\ kind = "crawl" /\ rpc = "count"
  /\ discovered_count' = discovered_count + Len(rItems)
  /\ issued' = [issued EXCEPT !.discovered = @ + Len(rItems)]
  /\ rItems' = <<>>
  /\ rpc' = "idle"
  /\ UNCHANGED <<status, started_at, finished_at, last_error, total_count,
                 processed_count, failed_count, storeVars, configVars, bootVars, rowVars, queueVars,
                 workerVars, producerVars, respN, labelVars, takesSinceFailed, startsSinceStop, envVars>>

\* -------------------------------------------------------- control surface
\* POST /api/{crawl,label}-jobs/:id/pause
Pause ==
  /\ ctlN < MaxCtl
  /\ ctlN' = ctlN + 1
  /\ status' = "paused"
  /\ HistOnStatus("paused")
  /\ UNCHANGED issued
  /\ UNCHANGED <<started_at, finished_at, last_error, discovered_count, total_count,
                 processed_count, failed_count, storeVars, configVars, bootVars, rowVars, queueVars,
                 workerVars, producerVars, respVars, labelVars>>

\* POST /api/{crawl,label}-jobs/:id/resume
Resume ==
  /\ ctlN < MaxCtl
  /\ ctlN' = ctlN + 1
  /\ status' = "running"
  /\ HistOnStatus("running")
  /\ UNCHANGED issued
  /\ UNCHANGED <<started_at, finished_at, last_error, discovered_count, total_count,
                 processed_count, failed_count, storeVars, configVars, bootVars, rowVars, queueVars,
                 workerVars, producerVars, respVars, labelVars>>

\* A clear-history that also zeroes the counters of the unfinished job.
ClearHistoryZeroesCounters ==
  /\ ctlN < MaxCtl
  /\ ctlN' = ctlN + 1
  /\ IF finished_at = NULL
     THEN /\ UpdateStatus("failed", SET, "CLEARED_BY_NEW_CRAWL")
          /\ discovered_count' = 0 /\ total_count' = 0
          /\ processed_count' = 0 /\ failed_count' = 0
     ELSE UNCHANGED <<status, finished_at, last_error, discovered_count,
                      total_count, processed_count, failed_count>>
  /\ HistOnStatus(IF finished_at = NULL THEN "failed" ELSE status)
  /\ UNCHANGED issued
  /\ model_labels' = {}
  /\ model_images' = [i \in Ids |-> 0]
  /\ models' = {}
  /\ UNCHANGED <<started_at, configVars, bootVars, rowVars, queueVars, workerVars, producerVars,
                 respVars, labelVars>>

\* clearHistory of POST /api/crawl-jobs and POST /api/import-models.
ClearHistory ==
  /\ ctlN < MaxCtl
  /\ ctlN' = ctlN + 1
  /\ IF finished_at = NULL
     THEN UpdateStatus("failed", SET, "CLEARED_BY_NEW_CRAWL")
     ELSE UNCHANGED <<status, finished_at, last_error>>
  /\ HistOnStatus(IF finished_at = NULL THEN "failed" ELSE status)
  /\ UNCHANGED issued
  /\ model_labels' = {}
  /\ model_images' = [i \in Ids |-> 0]
  /\ models' = {}
  /\ UNCHANGED <<started_at, discovered_count, total_count, processed_count,
                 failed_count, configVars, bootVars, rowVars, queueVars, workerVars, producerVars,
                 respVars, labelVars>>

\* -------------------------------------------------------------- label job
\* runLabelJob entered: updateStatus("running") whatever the row's status is.
LStart ==
  /\ kind = "label" /\ mpc = "idle"
  /\ UpdateStatus("running", finished_at, NULL)
  /\ started_at' = SET
  /\ HistOnStatus("running")
  /\ UNCHANGED issued
  /\ mpc' = "lctx"
  /\ UNCHANGED <<discovered_count, total_count, processed_count, failed_count,
                 storeVars, configVars, bootVars, rowVars, queueVars, workerVars, scrollI, batch, enrich,
                 respVars, labelVars, envVars>>

\* createContext returned.
LContext ==
  /\ kind = "label" /\ mpc = "lctx"
  /\ mpc' = "select"
  /\ UNCHANGED <<jobVars, storeVars, configVars, bootVars, rowVars, queueVars, workerVars, scrollI,
                 batch, enrich, respVars, labelVars, histVars, envVars>>

\* createContext threw: the outer catch writes failed.
LContextFail ==
  /\ kind = "label" /\ mpc = "lctx"
  /\ UpdateStatus("failed", SET, "ERR")
  /\ HistOnStatus("failed")
  /\ UNCHANGED issued
  /\ mpc' = "failed"
  /\ UNCHANGED <<started_at, discovered_count, total_count, processed_count,
                 failed_count, storeVars, configVars, bootVars, rowVars, queueVars, workerVars, scrollI,
                 batch, enrich, respVars, labelVars, envVars>>

\* The grades a label row can carry (two of S, A, B, C, D tell rows apart).
Grades == {"A", "B"}

LabelRows == [model_id : Ids, grade : Grades]

\* The models that have a row in model_labels.
Labelled == {r.model_id : r \in model_labels}

\* The rows baseQuery can return: the models without a label, in the order of
\* updated_at (any order here), cut at config.limit when it is set.
Selections ==
  LET open == models \ Labelled
      n == IF limitModels = 0 THEN Cardinality(open)
           ELSE Min(limitModels, Cardinality(open))
  IN {s \in [1..n -> open] : NoDup(s)}

\* baseQuery executed.
LSelect ==
  /\ kind = "label" /\ mpc = "select"
  /\ \E s \in Selections : candidates' = s
  /\ mpc' = "total"
  /\ UNCHANGED <<jobVars, storeVars, configVars, bootVars, rowVars, queueVars, workerVars, scrollI,
                 batch, enrich, respVars, rowI, imageUrls, histVars, envVars>>

\* The head of the for loop: the next row, or updateStatus("completed") next.
NextRow(i) ==
  IF i < Len(candidates')
  THEN /\ rowI' = i + 1
       /\ mpc' = "lcheck"
  ELSE /\ rowI' = i
       /\ mpc' = "lcomplete"

\* total_count = candidates.length
LTotal ==
  /\ kind = "label" /\ mpc = "total"
  /\ total_count' = Len(candidates)
  /\ UNCHANGED candidates
  /\ NextRow(0)
  /\ UNCHANGED <<status, started_at, finished_at, last_error, discovered_count,
                 processed_count, failed_count, storeVars, configVars, bootVars, rowVars, queueVars,
                 workerVars, scrollI, batch, enrich, respVars, imageUrls, histVars, envVars>>

\* One poll of waitIfPausedOrCancelled at the top of the loop body.
LCheck ==
  /\ kind = "label" /\ mpc = "lcheck"
  /\ mpc' = CASE Proceed(SelectStatus) = "go" -> "images"
              [] Proceed(SelectStatus) = "wait" -> "lcheck"
              [] OTHER -> "cancelled"
  /\ UNCHANGED <<jobVars, storeVars, configVars, bootVars, rowVars, queueVars, workerVars, scrollI,
                 batch, enrich, respVars, labelVars, histVars, envVars>>

\* A needScrape that is true only when no image url is in hand.
LImagesScrapeWhenNone ==
  /\ kind = "label" /\ mpc = "images"
  /\ \E n \in IF model_images[candidates[rowI]] = 0 THEN {0, 1}
              ELSE {model_images[candidates[rowI]]} :
       /\ imageUrls' = n
       /\ mpc' = IF n = 0 THEN "lscrape" ELSE "llabel"
  /\ StartCounted(LabelLoop)
  /\ UNCHANGED <<jobVars, storeVars, configVars, bootVars, rowVars, queueVars, workerVars, scrollI,
                 batch, enrich, respVars, candidates, rowI, takesSinceFailed, issued, envVars>>

\* The stored images of the row are read; with none, the cover of the selected
\* row (if it has one) stands in.  needScrape = imageUrls.length < 2.
LImages ==
  /\ kind = "label" /\ mpc = "images"
  /\ \E n \in IF model_images[candidates[rowI]] = 0 THEN {0, 1}
              ELSE {model_images[candidates[rowI]]} :
       /\ imageUrls' = n
       /\ mpc' = IF n < LabelImageNeed THEN "lscrape" ELSE "llabel"
  /\ StartCounted(LabelLoop)
  /\ UNCHANGED <<jobVars, storeVars, configVars, bootVars, rowVars, queueVars, workerVars, scrollI,
                 batch, enrich, respVars, candidates, rowI, takesSinceFailed, issued, envVars>>

\* scrapeModelPageInContext returned or threw (any message is per-item here).
LScrape ==
  /\ kind = "label" /\ mpc = "lscrape"
  /\ \E outcome \in {"lpersist", "lfail"} : mpc' = outcome
  /\ UNCHANGED <<jobVars, storeVars, configVars, bootVars, rowVars, queueVars, workerVars, scrollI,
                 batch, enrich, respVars, labelVars, histVars, envVars>>

\* UPDATE models where id = row.id; DELETE and INSERT of model_images.
LPersist ==
  /\ kind = "label" /\ mpc = "lpersist"
  /\ \E n \in 0..MaxImgs :
       /\ ReplaceImages(candidates[rowI], n)
       /\ imageUrls' = n
  /\ mpc' = IF InsertImagesOk(candidates[rowI], model_images'[candidates[rowI]])
            THEN "llabel" ELSE "lfail"
  /\ UNCHANGED <<jobVars, models, model_labels, configVars, bootVars, rowVars, queueVars, workerVars,
                 scrollI, batch, enrich, respVars, candidates, rowI, histVars, envVars>>

\* labelWithOpenAI returned or threw.
LLabel ==
  /\ kind = "label" /\ mpc = "llabel"
  /\ \E outcome \in {"linsert", "lfail"} : mpc' = outcome
  /\ UNCHANGED <<jobVars, storeVars, configVars, bootVars, rowVars, queueVars, workerVars, scrollI,
                 batch, enrich, respVars, labelVars, histVars, envVars>>

\* An INSERT into a model_labels table that has no primary key.
LInsertNoPrimaryKey ==
  /\ kind = "label" /\ mpc = "linsert"
  /\ IF candidates[rowI] \in models
     THEN /\ \E g \in Grades :
               model_labels' = model_labels \cup
                                 {[model_id |-> candidates[rowI], grade |-> g]}
          /\ mpc' = "lcount"
     ELSE /\ mpc' = "lfail"
          /\ UNCHANGED model_labels
  /\ UNCHANGED <<jobVars, models, model_images, configVars, bootVars, rowVars, queueVars, workerVars,
                 scrollI, batch, enrich, respVars, labelVars, histVars, envVars>>

\* INSERT into model_labels of the result of labelWithOpenAI: model_id is the
\* primary key and references models; a conflict throws and nothing is stored.
LInsert ==
  /\ kind = "label" /\ mpc = "linsert"
  /\ IF candidates[rowI] \in models /\ candidates[rowI] \notin Labelled
     THEN /\ \E g \in Grades :
               model_labels' = model_labels \cup
                                 {[model_id |-> candidates[rowI], grade |-> g]}
          /\ mpc' = "lcount"
     ELSE /\ mpc' = "lfail"
          /\ UNCHANGED model_labels
  /\ UNCHANGED <<jobVars, models, model_images, configVars, bootVars, rowVars, queueVars, workerVars,
                 scrollI, batch, enrich, respVars, labelVars, histVars, envVars>>

\* A loop that keeps total_count as the number of rows still to handle.
LCountRefreshesTotal ==
  /\ kind = "label" /\ mpc = "lcount"
  /\ processed_count' = processed_count + 1
  /\ issued' = [issued EXCEPT !.processed = @ + 1]
  /\ total_count' = Len(candidates) - rowI
  /\ UNCHANGED candidates
  /\ NextRow(rowI)
  /\ UNCHANGED <<status, started_at, finished_at, last_error, discovered_count,
                 failed_count, storeVars, configVars, bootVars, rowVars, queueVars,
                 workerVars, scrollI, batch, enrich, respVars, imageUrls, takesSinceFailed,
                 startsSinceStop, envVars>>

\* processed_count = processed_count + 1
LCount ==
  /\ kind = "label" /\ mpc = "lcount"
  /\ processed_count' = processed_count + 1
  /\ issued' = [issued EXCEPT !.processed = @ + 1]
  /\ UNCHANGED candidates
  /\ NextRow(rowI)
  /\ UNCHANGED <<status, started_at, finished_at, last_error, discovered_count,
                 total_count, failed_count, storeVars, configVars, bootVars, rowVars, queueVars,
                 workerVars, scrollI, batch, enrich, respVars, imageUrls, takesSinceFailed, startsSinceStop, envVars>>

\* A catch that treats the failure as fatal: the job is written failed and
\* the loop ends.
LFailEscalates ==
  /\ kind = "label" /\ mpc = "lfail"
  /\ UpdateStatus("failed", SET, "ERR")
  /\ HistOnStatus("failed")
  /\ UNCHANGED issued
  /\ mpc' = "failed"
  /\ UNCHANGED <<started_at, discovered_count, total_count, processed_count,
                 failed_count, storeVars, configVars, bootVars, rowVars, queueVars, workerVars,
                 scrollI, batch, enrich, respVars, labelVars, envVars>>

\* catch: failed_count + 1 and last_error.
LFail ==
  /\ kind = "label" /\ mpc = "lfail"
  /\ failed_count' = failed_count + 1
  /\ issued' = [issued EXCEPT !.failed = @ + 1]
  /\ last_error' = "ERR"
  /\ UNCHANGED candidates
  /\ NextRow(rowI)
  /\ UNCHANGED <<status, started_at, finished_at, discovered_count, total_count,
                 processed_count, storeVars, configVars, bootVars, rowVars, queueVars, workerVars,
                 scrollI, batch, enrich, respVars, imageUrls, takesSinceFailed, startsSinceStop, envVars>>

\* After the loop: updateStatus("completed").
LComplete ==
  /\ kind = "label" /\ mpc = "lcomplete"
  /\ UpdateStatus("completed", SET, last_error)
  /\ HistOnStatus("completed")
  /\ UNCHANGED issued
  /\ mpc' = "done"
  /\ UNCHANGED <<started_at, discovered_count, total_count, processed_count,
                 failed_count, storeVars, configVars, bootVars, rowVars, queueVars, workerVars, scrollI,
                 batch, enrich, respVars, labelVars, envVars>>

\* The INSERT of another run of runLabelJob beside this label job (a second
\* label job, or the same job invoked again): it stores a row for a model that
\* has none; on a conflict it stores nothing.
OtherLabelInsert ==
  /\ kind = "label"
  /\ \E id \in models \ Labelled, g \in Grades :
       model_labels' = model_labels \cup {[model_id |-> id, grade |-> g]}
  /\ UNCHANGED <<jobVars, models, model_images, configVars, bootVars, rowVars, queueVars, workerVars,
                 producerVars, respVars, labelVars, histVars, envVars>>

\* ------------------------------------------------------- one models row
\* Field values: two values tell an overwrite from a rewrite; the fields the
\* claims do not compare by value take one value or null.
Vals == {"a", "b"}

OptVals == Vals \cup {NULL}

OptVal == {"a", NULL}

\* The image lists a scrape returns: distinct urls (Array.from(new Set(..))).
ImageLists == {l \in SeqUpTo(Vals, 2) : NoDup(l)}

\* ScrapedModel, without the id (the row followed) and rawTextSample (not stored).
Payloads == [url : Vals, title : OptVals, authorName : OptVal,
             downloadCount : OptVal, description : OptVal, imageUrls : ImageLists]

\* Discovered, without the id: the producers set url, and may set
\* cover_image_url and title; none of them sets author_name.
Sightings == [url : Vals, title : OptVals, cover_image_url : OptVals,
              author_name : {NULL}]

\* COALESCE(a, b)
Coalesce(a, b) == IF a # NULL THEN a ELSE b

\* The models row followed, when the table holds it.
Row == item[1]

HasRow == Len(item) = 1

\* persistDiscovered for the one item: INSERT, or on conflict DO UPDATE SET
\* url = excluded.url, title = COALESCE(excluded.title, title), ...
SightingPersisted(it) ==
  /\ kind = "item" /\ now < MaxClock
  /\ now' = now + 1
  /\ item' = IF ~HasRow
             THEN <<[url |-> it.url, title |-> it.title, author_name |-> it.author_name,
                     download_count |-> NULL, cover_image_url |-> it.cover_image_url,
                     description |-> NULL, updated_at |-> now']>>
             ELSE <<[Row EXCEPT !.url = it.url,
                                !.title = Coalesce(it.title, Row.title),
                                !.author_name = Coalesce(it.author_name, Row.author_name),
                                !.cover_image_url =
                                   Coalesce(it.cover_image_url, Row.cover_image_url),
                                !.updated_at = now']>>
  /\ lastScraped' = <<>>
  /\ UNCHANGED <<item_images, refresh, image_rows, configured, spawned, mainVars, bootVars>>

\* The row an UPDATE with the scraped payload p leaves.
ScrapedRow(p) ==
  [url |-> p.url, title |-> p.title, author_name |-> p.authorName,
   download_count |-> p.downloadCount,
   cover_image_url |-> IF Len(p.imageUrls) > 0 THEN p.imageUrls[1] ELSE NULL,
   description |-> p.description, updated_at |-> now']

\* A write of the scraped payload that inserts the images without the DELETE
\* (and without the fixed image ids).
ScrapeAppliedNoDelete(p) ==
  /\ kind = "item" /\ now < MaxClock
  /\ now' = now + 1
  /\ IF ~HasRow
     THEN UNCHANGED <<item, item_images>>
     ELSE /\ item' = <<ScrapedRow(p)>>
          /\ item_images' = item_images \o p.imageUrls
  /\ lastScraped' = <<p>>
  /\ UNCHANGED <<refresh, image_rows, configured, spawned, mainVars, bootVars>>

\* The worker's write of a scraped payload: UPDATE models WHERE id, DELETE
\* model_images WHERE model_id, INSERT of the images with ids id_idx.  Without
\* the models row the UPDATE matches nothing and the INSERT violates the
\* foreign key.
ScrapeApplied(p) ==
  /\ kind = "item" /\ now < MaxClock
  /\ now' = now + 1
  /\ IF ~HasRow
     THEN UNCHANGED <<item, item_images>>
     ELSE /\ item' = <<ScrapedRow(p)>>
          /\ item_images' = p.imageUrls
  /\ lastScraped' = <<p>>
  /\ UNCHANGED <<refresh, image_rows, configured, spawned, mainVars, bootVars>>

\* clearHistory: DELETE of model_images and models.
RowsCleared ==
  /\ kind = "item" /\ now < MaxClock
  /\ HasRow
  /\ now' = now + 1
  /\ item' = <<>>
  /\ item_images' = <<>>
  /\ lastScraped' = <<>>
  /\ UNCHANGED <<refresh, image_rows, configured, spawned, mainVars, bootVars>>

\* ---------------------------------------------------------- image refresh
\* The writers that refresh the images of one stored model side by side: a
\* crawl worker and the label loop, or the loops of two runs.
Writers == Workers

\* The rows an INSERT of image list l makes: id = model_id + "_" + idx, so idx
\* stands for the primary key; payload tells the scrape the row came from.
ImageRows(l, tag) == {[idx |-> i - 1, url |-> l[i], payload |-> tag] : i \in 1..Len(l)}

\* The scrape of writer w returned list l and its DELETE FROM model_images
\* WHERE model_id = id has run.
ImagesDeleted(w, l) ==
  /\ kind = "images" /\ now < MaxClock
  /\ refresh[w].pc \in {"idle", "done", "failed"}
  /\ now' = now + 1
  /\ image_rows' = {}
  /\ refresh' = [refresh EXCEPT ![w] = [pc |-> IF Len(l) > 0 THEN "insert" ELSE "done",
                                        urls |-> l, tag |-> now']]
  /\ UNCHANGED <<item, item_images, lastScraped, configured, spawned, mainVars, bootVars>>

\* An INSERT into a table whose row ids are generated: no conflict can arise.
ImagesInsertedFreshIds(w) ==
  /\ kind = "images"
  /\ refresh[w].pc = "insert"
  /\ image_rows' = image_rows \cup ImageRows(refresh[w].urls, refresh[w].tag)
  /\ refresh' = [refresh EXCEPT ![w].pc = "done"]
  /\ UNCHANGED <<item, item_images, now, lastScraped, configured, spawned, mainVars, bootVars>>

\* The INSERT of writer w: one statement for all its rows.  A row whose id is
\* taken violates the primary key: the statement throws and stores nothing.
ImagesInserted(w) ==
  /\ kind = "images"
  /\ refresh[w].pc = "insert"
  /\ LET rows == ImageRows(refresh[w].urls, refresh[w].tag)
     IN IF \E r \in image_rows, n \in rows : r.idx = n.idx
        THEN /\ refresh' = [refresh EXCEPT ![w].pc = "failed"]
             /\ UNCHANGED image_rows
        ELSE /\ image_rows' = image_rows \cup rows
             /\ refresh' = [refresh EXCEPT ![w].pc = "done"]
  /\ UNCHANGED <<item, item_images, now, lastScraped, configured, spawned, mainVars, bootVars>>

\* ------------------------------------------------------------ pool sizing
\* The values config.concurrency can hold when the job row is read: a number,
\* NaN, or nothing at all (undefined).
ConfigValues ==
  {[t |-> "number", n |-> k] : k \in (0 - MaxConfigured)..MaxConfigured}
    \cup {[t |-> "NaN", n |-> 0], [t |-> "undefined", n |-> 0]}

\* Number(config.concurrency) as `|| 1` sees it: Number(undefined) is NaN, and
\* NaN is falsy as 0 is, so both stand as 0 before the fallback.
NumberOrFalsy(v) == IF v.t = "number" THEN v.n ELSE 0

\* Array.from({ length: concurrency }, () => worker()): the worker() calls
\* are made in one synchronous step.
WorkersSpawned ==
  /\ kind = "pool" /\ spawned = <<>>
  /\ spawned' = <<PoolSize(NumberOrFalsy(configured))>>
  /\ UNCHANGED <<item, item_images, now, lastScraped, refresh, image_rows, configured,
                 mainVars, bootVars>>

\* The run ended and the job row is run again (process restart).
PoolRunEnded ==
  /\ kind = "pool" /\ spawned # <<>>
  /\ spawned' = <<>>
  /\ UNCHANGED <<item, item_images, now, lastScraped, refresh, image_rows, configured,
                 mainVars, bootVars>>

\* ---------------------------------------------------------------- recovery
\* The job rows a process can find at its start: any row an earlier process
\* left behind.  The rows are indexed in the order of created_at.
BootRows ==
  {r \in [kind : {"crawl", "label"}, status : Status, finished_at : {NULL, SET}] :
     /\ r.status \in {"completed", "failed"} => r.finished_at = SET
     /\ r.status = "queued" => r.finished_at = NULL}

\* The select of resume() for one kind over table tbl: finished_at is null,
\* status in (queued, running), order by created_at desc, limit 1.
Target(tbl, k) ==
  LET c == {j \in DOMAIN tbl : /\ tbl[j].kind = k
                           /\ tbl[j].finished_at = NULL
                           /\ tbl[j].status \in {"queued", "running"}}
  IN IF c = {} THEN NoJob ELSE CHOOSE j \in c : \A i \in c : i <= j

\* A select ordered by created_at asc.
RecoverTargetOldest(k) ==
  LET c == {j \in DOMAIN jobs : /\ jobs[j].kind = k
                           /\ jobs[j].finished_at = NULL
                           /\ jobs[j].status \in {"queued", "running"}}
  IN IF c = {} THEN NoJob ELSE CHOOSE j \in c : \A i \in c : j <= i

RecoverTarget(k) == Target(jobs, k)

SelectAt(k) == IF k = "crawl" THEN "crawl_select" ELSE "label_select"

ArmAt(k) == IF k = "crawl" THEN "crawl_arm" ELSE "label_arm"

AfterKind(k) == IF k = "crawl" THEN "label_select" ELSE "done"

\* resume(): the select for kind k returned.
RecoverSelect(k) ==
  /\ bpc = SelectAt(k)
  /\ picked' = RecoverTarget(k)
  /\ bpc' = IF picked' = NoJob THEN AfterKind(k) ELSE ArmAt(k)
  /\ UNCHANGED <<jobs, atBoot, invoked, restarts, mainVars, rowVars>>

\* resume(): the picked job is set to queued and its loop is scheduled.
RecoverArm(k) ==
  /\ bpc = ArmAt(k)
  /\ jobs' = [jobs EXCEPT ![picked].status = "queued"]
  /\ invoked' = [invoked EXCEPT ![picked] = @ + 1]
  /\ picked' = NoJob
  /\ bpc' = AfterKind(k)
  /\ UNCHANGED <<atBoot, restarts, mainVars, rowVars>>

\* The timer of a scheduled loop fired: the loop's first write is
\* updateStatus("running").
LoopStarts(j) ==
  /\ bpc # "off"
  /\ invoked[j] > 0 /\ jobs[j].status = "queued"
  /\ jobs' = [jobs EXCEPT ![j].status = "running"]
  /\ UNCHANGED <<atBoot, invoked, bpc, picked, restarts, mainVars, rowVars>>

\* The process is restarted while the label job is unfinished and resume()
\* re-arms it: the row is set to queued, its counters stay as the interrupted
\* run left them, and runLabelJob starts again with fresh in-memory state.
RerunAfterRestart ==
  /\ kind = "label" /\ restarts < MaxRestarts
  /\ mpc # "idle"
  /\ finished_at = NULL /\ status \in {"queued", "running"}
  /\ status' = "queued"
  /\ HistOnStatus("queued")
  /\ UNCHANGED issued
  /\ mpc' = "idle"
  /\ candidates' = <<>> /\ rowI' = 0 /\ imageUrls' = 0
  /\ restarts' = restarts + 1
  /\ UNCHANGED <<started_at, finished_at, last_error, discovered_count, total_count,
                 processed_count, failed_count, storeVars, configVars, queueVars,
                 workerVars, scrollI, batch, enrich, respVars, envVars,
                 jobs, atBoot, invoked, bpc, picked, rowVars>>

\* POST /api/crawl-jobs and POST /api/label-jobs served while resume() is
\* under way (its first select was issued before any request could be
\* received): the new row is inserted queued, the newest of its table, and the
\* handler schedules the loop for its id.
CreateJob(k) ==
  /\ kind = "sched"
  /\ bpc \in {"crawl_arm", "label_select", "label_arm", "done"}
  /\ Len(jobs) < MaxJobs
  /\ jobs' = Append(jobs, [kind |-> k, status |-> "queued", finished_at |-> NULL])
  /\ invoked' = Append(invoked, 1)
  /\ UNCHANGED <<atBoot, bpc, picked, restarts, mainVars, rowVars>>

\* ------------------------------------------------------------- job tables
\* The rows of crawl_jobs and label_jobs a run leaves without any request of
\* the control surface: finished_at is written with completed and failed
\* only, last_error by a failure.
TableRows ==
  {r \in [kind : {"crawl", "label"}, status : Status, finished_at : {NULL, SET},
          last_error : {NULL, "ERR"}, processed_count : 0..1] :
     /\ r.status # "paused"
     /\ r.finished_at = SET <=> r.status \in {"completed", "failed"}
     /\ r.status = "failed" <=> r.last_error = "ERR"
     /\ r.status = "queued" => r.processed_count = 0}

\* last_error as the two clearHistory blocks write it.
ClearTags == {"CLEARED_BY_NEW_CRAWL", "CLEARED_BY_IMPORT"}

\* A pause whose UPDATE has no where clause on the id: every row of the
\* job's table is written.
PauseJobAllRows(j) ==
  /\ kind = "clear" /\ ctlN < MaxRequests
  /\ jobs' = [i \in JobIds |->
                IF jobs[i].kind = jobs[j].kind
                THEN [jobs[i] EXCEPT !.status = "paused"]
                ELSE jobs[i]]
  /\ ctlN' = ctlN + 1
  /\ UNCHANGED <<jobVars, storeVars, configVars, queueVars, workerVars, producerVars,
                 respVars, labelVars, histVars, atBoot, invoked, bpc, picked, restarts, rowVars>>

\* POST /api/crawl-jobs/:id/pause and /api/label-jobs/:id/pause: one UPDATE
\* of the row's status, whatever the row holds.
PauseJob(j) ==
  /\ kind = "clear" /\ ctlN < MaxRequests
  /\ jobs' = [jobs EXCEPT ![j].status = "paused"]
  /\ ctlN' = ctlN + 1
  /\ UNCHANGED <<jobVars, storeVars, configVars, queueVars, workerVars, producerVars,
                 respVars, labelVars, histVars, atBoot, invoked, bpc, picked, restarts, rowVars>>

\* POST /api/crawl-jobs/:id/resume and /api/label-jobs/:id/resume.
ResumeJob(j) ==
  /\ kind = "clear" /\ ctlN < MaxRequests
  /\ jobs' = [jobs EXCEPT ![j].status = "running"]
  /\ ctlN' = ctlN + 1
  /\ UNCHANGED <<jobVars, storeVars, configVars, queueVars, workerVars, producerVars,
                 respVars, labelVars, histVars, atBoot, invoked, bpc, picked, restarts, rowVars>>

\* The writes of a job's execution loop to the job tables, each one UPDATE
\* where id = jobId.  The loop scheduled for a row created queued starts:
\* updateStatus("running", {started_at, last_error: null}).
JobLoopStarts(j) ==
  /\ kind = "clear"
  /\ invoked[j] = 0 /\ atBoot[j].status = "queued"
  /\ jobs' = [jobs EXCEPT ![j].status = "running", ![j].last_error = NULL]
  /\ invoked' = [invoked EXCEPT ![j] = 1]
  /\ UNCHANGED <<mainVars, atBoot, bpc, picked, restarts, rowVars>>

\* processed_count = processed_count + 1 where id = jobId.
JobLoopCounts(j) ==
  /\ kind = "clear"
  /\ invoked[j] = 1 /\ jobs[j].processed_count < 1
  /\ jobs' = [jobs EXCEPT ![j].processed_count = @ + 1]
  /\ UNCHANGED <<mainVars, atBoot, invoked, bpc, picked, restarts, rowVars>>

\* failed_count = failed_count + 1 and last_error where id = jobId.
JobLoopFails(j) ==
  /\ kind = "clear"
  /\ invoked[j] = 1
  /\ jobs' = [jobs EXCEPT ![j].last_error = "ERR"]
  /\ UNCHANGED <<mainVars, atBoot, invoked, bpc, picked, restarts, rowVars>>

\* updateStatus("completed" or "failed", {finished_at, ...}) and the loop
\* returns.
JobLoopEnds(j, s) ==
  /\ kind = "clear"
  /\ invoked[j] = 1
  /\ jobs' = [jobs EXCEPT ![j].status = s, ![j].finished_at = SET,
                          ![j].last_error = IF s = "failed" THEN "ERR" ELSE @]
  /\ invoked' = [invoked EXCEPT ![j] = 2]
  /\ UNCHANGED <<mainVars, atBoot, bpc, picked, restarts, rowVars>>

\* The clearHistory block of a create request: the two UPDATEs where
\* finished_at is null, then the three DELETEs.
ClearHistoryAll(tag) ==
  /\ kind = "clear" /\ ctlN < MaxRequests
  /\ jobs' = [j \in JobIds |->
                IF jobs[j].finished_at = NULL
                THEN [jobs[j] EXCEPT !.status = "failed", !.finished_at = SET,
                                     !.last_error = tag]
                ELSE jobs[j]]
  /\ models' = {} /\ model_labels' = {}
  /\ model_images' = [i \in Ids |-> 0]
  /\ ctlN' = ctlN + 1
  /\ UNCHANGED <<jobVars, configVars, queueVars, workerVars, producerVars,
                 respVars, labelVars, histVars, atBoot, invoked, bpc, picked, restarts, rowVars>>

\* ------------------------------------------------------------ specification
\* create-job inserted the row (queued, counters 0) and scheduled the loop.
InitJob ==
  /\ status = "queued"
  /\ started_at = NULL /\ finished_at = NULL /\ last_error = NULL
  /\ discovered_count = 0 /\ total_count = 0
  /\ processed_count = 0 /\ failed_count = 0
  /\ mpc = "idle"

InitMemory ==
  /\ scrollI = 0
  /\ discoveredIds = {} /\ queue = <<>> /\ queueIndex = 0
  /\ discoveryDone = FALSE /\ wake = NoWorker
  /\ wpc = [w \in Workers |-> "none"]
  /\ cur = [w \in Workers |-> NoItem]
  /\ batch = <<>> /\ enrich = <<>>
  /\ rpc = "idle" /\ rItems = <<>> /\ respN = 0
  /\ candidates = <<>> /\ rowI = 0 /\ imageUrls = 0
  /\ takesSinceFailed = ZeroTakes
  /\ startsSinceStop = ZeroStarts
  /\ issued = NoneIssued
  /\ ctlN = 0

\* A crawl job created by POST /api/crawl-jobs with clearHistory.
InitCrawl ==
  /\ kind = "crawl"
  /\ concurrency \in 1..MaxPool
  /\ limitModels \in 1..MaxLimit
  /\ maxScrolls \in 1..MaxScrolls
  /\ models = {} /\ model_labels = {}
  /\ model_images = [i \in Ids |-> 0]

\* A label job created by POST /api/label-jobs over the stored models.
InitLabel ==
  /\ kind = "label"
  /\ concurrency = 1 /\ maxScrolls = 1
  /\ limitModels \in 0..MaxLimit
  /\ models \in SUBSET Ids
  /\ model_labels \in SUBSET LabelRows
  /\ Labelled \subseteq models
  /\ \A r1, r2 \in model_labels : r1.model_id = r2.model_id => r1 = r2
  /\ model_images \in [Ids -> 0..MaxImgs]
  /\ \A i \in Ids : i \notin models => model_images[i] = 0

\* No recovery is followed.
InitNoBoot ==
  /\ jobs = <<>> /\ atBoot = <<>> /\ invoked = <<>>
  /\ bpc = "off" /\ picked = NoJob /\ restarts = 0

\* No pool is being sized.
InitNoPool == configured = [t |-> "number", n |-> 1] /\ spawned = <<>>

\* No single models row is followed.
InitNoItem ==
  /\ item = <<>> /\ item_images = <<>> /\ now = 0 /\ lastScraped = <<>>
  /\ refresh = <<>> /\ image_rows = {}
  /\ InitNoPool

Init == InitJob /\ InitMemory /\ (InitCrawl \/ InitLabel) /\ InitNoBoot /\ InitNoItem

\* The steps of the job's own execution loop.
LoopStep ==
  \/ CStart \/ CContext \/ CContextFail \/ CNav \/ CNavBlocked \/ CThrow
  \/ DCheck \/ DEval \/ DEnrich \/ DPersist \/ DCount \/ CClose
  \/ JoinResolve \/ JoinReject
  \/ \E w \in Workers :
       \/ WCheck(w) \/ WTake(w) \/ WScrape(w) \/ WPersist(w)
       \/ WCount(w) \/ WFailCount(w) \/ WHardBlock(w)
  \/ RespText \/ RespPersist \/ RespCount
  \/ LStart \/ LContext \/ LContextFail \/ LSelect \/ LTotal \/ LCheck
  \/ LImages \/ LScrape \/ LPersist \/ LLabel \/ LInsert \/ LCount \/ LFail
  \/ LComplete

\* The steps of the environment: the control surface and the listing's
\* responses.
External == Pause \/ Resume \/ ClearHistory

Next == LoopStep \/ RespArrive \/ External \/ OtherLabelInsert

Spec == Init /\ [][Next]_vars

\* Process start: app.listen's callback calls resume() over the rows it finds.
InitBoot ==
  /\ InitJob /\ InitMemory
  /\ kind = "boot" /\ concurrency = 1 /\ limitModels = 1 /\ maxScrolls = 1
  /\ models = {} /\ model_labels = {}
  /\ model_images = [i \in Ids |-> 0]
  /\ jobs \in [JobIds -> BootRows]
  /\ atBoot = jobs
  /\ invoked = [j \in JobIds |-> 0]
  /\ bpc = "crawl_select" /\ picked = NoJob /\ restarts = 0
  /\ InitNoItem

NextBoot ==
  \/ \E k \in {"crawl", "label"} : RecoverSelect(k) \/ RecoverArm(k)
  \/ \E j \in JobIds : LoopStarts(j)

SpecBoot == InitBoot /\ [][NextBoot]_vars

\* The writes of the crawl pipeline to the row of one model, from an empty
\* store.
InitItem ==
  /\ InitJob /\ InitMemory
  /\ kind = "item" /\ concurrency = 1 /\ limitModels = 1 /\ maxScrolls = 1
  /\ models = {} /\ model_labels = {}
  /\ model_images = [i \in Ids |-> 0]
  /\ InitNoBoot
  /\ InitNoItem

NextItem ==
  \/ \E it \in Sightings : SightingPersisted(it)
  \/ \E p \in Payloads : ScrapeApplied(p)
  \/ RowsCleared

SpecItem == InitItem /\ [][NextItem]_vars

\* The requests of the control surface over the tables of both job kinds and
\* a filled store.
InitClear ==
  /\ InitJob /\ InitMemory
  /\ kind = "clear" /\ concurrency = 1 /\ limitModels = 1 /\ maxScrolls = 1
  /\ models = Ids
  /\ model_images = [i \in Ids |-> 1]
  /\ model_labels = {[model_id |-> 1, grade |-> "A"]}
  /\ jobs \in [JobIds -> TableRows]
  /\ atBoot = jobs
  /\ invoked = [j \in JobIds |-> 0]
  /\ bpc = "off" /\ picked = NoJob /\ restarts = 0
  /\ InitNoItem

NextClear ==
  \/ \E j \in JobIds : PauseJob(j) \/ ResumeJob(j)
  \/ \E j \in JobIds :
       \/ JobLoopStarts(j) \/ JobLoopCounts(j) \/ JobLoopFails(j)
       \/ \E s \in {"completed", "failed"} : JobLoopEnds(j, s)
  \/ \E tag \in ClearTags : ClearHistoryAll(tag)

SpecClear == InitClear /\ [][NextClear]_vars

\* A crawl job with one worker whose scroll loop may take a second iteration.
InitDiscovery ==
  /\ InitJob /\ InitMemory
  /\ kind = "crawl" /\ concurrency = 1
  /\ limitModels \in 1..MaxLimit
  /\ maxScrolls \in 1..MaxDeepScrolls
  /\ models = {} /\ model_labels = {}
  /\ model_images = [i \in Ids |-> 0]
  /\ InitNoBoot
  /\ InitNoItem

NextDiscovery ==
  \/ CStart \/ CContext \/ CContextFail \/ CNav \/ CNavBlocked \/ CThrow
  \/ DCheck \/ DEval \/ DEnrich \/ DPersist \/ DCount \/ CClose
  \/ JoinResolve \/ JoinReject
  \/ \E w \in Workers :
       \/ WCheck(w) \/ WTake(w) \/ WScrape(w) \/ WPersist(w)
       \/ WCount(w) \/ WFailCount(w) \/ WHardBlock(w)
  \/ RespArrive \/ RespText \/ RespPersist \/ RespCount
  \/ Pause \/ Resume \/ ClearHistory

SpecDiscovery == InitDiscovery /\ [][NextDiscovery]_vars

\* A label job across a restart of the process.
InitRerun == InitJob /\ InitMemory /\ InitLabel /\ InitNoBoot /\ InitNoItem

NextRerun ==
  \/ LStart \/ LContext \/ LContextFail \/ LSelect \/ LTotal \/ LCheck
  \/ LImages \/ LScrape \/ LPersist \/ LLabel \/ LInsert \/ LCount \/ LFail
  \/ LComplete
  \/ OtherLabelInsert
  \/ Pause \/ Resume \/ ClearHistory
  \/ RerunAfterRestart

SpecRerun == InitRerun /\ [][NextRerun]_vars

\* Process start with create requests served while resume() runs.
InitSchedule ==
  /\ InitJob /\ InitMemory
  /\ kind = "sched" /\ concurrency = 1 /\ limitModels = 1 /\ maxScrolls = 1
  /\ models = {} /\ model_labels = {}
  /\ model_images = [i \in Ids |-> 0]
  /\ \E n \in 0..MaxOldJobs : jobs \in [1..n -> BootRows]
  /\ atBoot = jobs
  /\ invoked = [j \in DOMAIN jobs |-> 0]
  /\ bpc = "crawl_select" /\ picked = NoJob /\ restarts = 0
  /\ InitNoItem

NextSchedule ==
  \/ \E k \in {"crawl", "label"} : RecoverSelect(k) \/ RecoverArm(k) \/ CreateJob(k)
  \/ \E j \in DOMAIN jobs : LoopStarts(j)

SpecSchedule == InitSchedule /\ [][NextSchedule]_vars

\* Two writers refresh the images of one stored model, statement by
\* statement.
InitImages ==
  /\ InitJob /\ InitMemory
  /\ kind = "images" /\ concurrency = 1 /\ limitModels = 1 /\ maxScrolls = 1
  /\ models = {} /\ model_labels = {}
  /\ model_images = [i \in Ids |-> 0]
  /\ InitNoBoot
  /\ item = <<>> /\ item_images = <<>> /\ now = 0 /\ lastScraped = <<>>
  /\ refresh = [w \in Writers |-> [pc |-> "idle", urls |-> <<>>, tag |-> 0]]
  /\ image_rows = {}
  /\ InitNoPool

NextImages ==
  \/ \E w \in Writers, l \in ImageLists : ImagesDeleted(w, l)
  \/ \E w \in Writers : ImagesInserted(w)

SpecImages == InitImages /\ [][NextImages]_vars

\* The pool of one crawl job is sized from the stored config.concurrency.
InitPool ==
  /\ InitJob /\ InitMemory
  /\ kind = "pool" /\ concurrency = 1 /\ limitModels = 1 /\ maxScrolls = 1
  /\ models = {} /\ model_labels = {}
  /\ model_images = [i \in Ids |-> 0]
  /\ InitNoBoot
  /\ item = <<>> /\ item_images = <<>> /\ now = 0 /\ lastScraped = <<>>
  /\ refresh = <<>> /\ image_rows = {}
  /\ configured \in ConfigValues /\ spawned = <<>>

NextPool == WorkersSpawned \/ PoolRunEnded

SpecPool == InitPool /\ [][NextPool]_vars

\* ------------------------------------------------------------------ claims
Terminal == {"completed", "failed"}

\* C1: in every reachable state finished_at is non-null if and only if the
\* status is completed or failed.
C1_FinishedIffTerminal ==
  (finished_at # NULL) <=> (status \in Terminal)

\* C2: once clear-history has set the status to failed, no step of the
\* running loop writes another status, also when the change lands during or
\* after the last item.
C2_CancelWritesNoStatus ==
  [][(/\ status = "failed" /\ last_error = "CLEARED_BY_NEW_CRAWL"
      /\ mpc # "idle" /\ processed_count + failed_count > 0
      /\ LoopStep) => status' = status]_vars

\* C3: after a crawl worker has recorded a hard block, the run leaves the
\* status failed: no step of the run writes another status over it.
C3_HardBlockStaysFailed ==
  [][(/\ kind = "crawl" /\ ctlN = 0
      /\ status = "failed" /\ last_error = "CLOUDFLARE_BLOCKED"
      /\ LoopStep) => status' = "failed"]_vars

\* Only a worker has written failed so far: no request of the control surface
\* was served, and the job function did not end on the listing's challenge or
\* on a thrown error.
FailedByWorkerOnly == kind = "crawl" /\ ctlN = 0 /\ mpc # "failed"

\* C4: after a worker has recorded a hard block no worker takes a further
\* candidate from the queue (items in flight at that moment may complete).
C4_NoTakeAfterHardBlock ==
  FailedByWorkerOnly => \A w \in Workers : takesSinceFailed[w] = 0

\* C5: a job paused before its execution loop starts stays paused, with no
\* item dequeued or processed, until a resume request flips it to running: no
\* step of the loop itself leaves paused.
C5_PausedBeforeStartHolds ==
  [][(/\ mpc = "idle" /\ status = "paused"
      /\ LoopStep) => (status' = "paused" /\ queueIndex' = 0 /\ rowI' = 0)]_vars

\* The positions of the three pollers: where they poll, where they go on a
\* poll that read running.
PollAt(pc, at, go) ==
  /\ (pc = at /\ status = "paused") => pc' = at
  /\ (pc = at /\ pc' # at) =>
        \/ pc' = go /\ status = "running"
        \/ /\ pc' = "cancelled"
           /\ status \notin {"running", "paused"}
           /\ UNCHANGED <<jobVars, storeVars>>

\* C6: a poll raises Cancelled, mutating nothing, when the record is missing
\* or the status is neither running nor paused; it polls again while the
\* status is paused; it returns only after a poll that read running.
C6_AwaitProceed ==
  [][/\ \A w \in Workers : PollAt(wpc[w], "check", "take")
     /\ kind = "crawl" => PollAt(mpc, "dcheck", "eval")
     /\ kind = "label" => PollAt(mpc, "lcheck", "images")
     /\ \A r \in {NoRow, "queued", "completed", "failed"} : Proceed(r) = "cancel"
     /\ Proceed("paused") = "wait" /\ Proceed("running") = "go"]_vars

\* A poll raised Cancelled on a status that is neither running nor paused.
C6_Witness ==
  /\ status = "failed"
  /\ \/ \E w \in Pool : wpc[w] = "cancelled"
     \/ mpc = "cancelled"

\* The run was not cancelled, paused or hit by a hard block or a thrown error.
Undisturbed ==
  /\ ctlN = 0
  /\ last_error # "CLOUDFLARE_BLOCKED"
  /\ mpc \notin {"failed", "cancelled"}

\* The candidates of the run: the queue of a crawl job, the selection of a
\* label job.
CandidateCount == IF kind = "crawl" THEN Len(queue) ELSE Len(candidates)

\* C7: a run that is neither cancelled nor hit by a hard block ends with
\* status completed and with processed_count + failed_count equal to the
\* number of candidates (k successes counted in processed_count, the n-k
\* failures in failed_count).
C7_CounterAccuracy ==
  (Undisturbed /\ CandidateCount > 0 /\ ~ENABLED LoopStep) =>
     /\ status = "completed"
     /\ processed_count + failed_count = CandidateCount

\* C8: a consumer stays suspended on the queue only while the queue is
\* exhausted and end-of-input has not been signaled.
C8_BlockedOnlyWhileEmptyAndOpen ==
  \A w \in Pool :
    wpc[w] = "blocked" => (queueIndex = Len(queue) /\ ~discoveryDone)

\* C9: a crawl job that is not cancelled and not paused reaches completed or
\* failed with finished_at set: it never comes to rest in another status.
C9_CrawlTerminates ==
  (kind = "crawl" /\ ctlN = 0 /\ ~ENABLED (LoopStep \/ RespArrive)) =>
     (status \in Terminal /\ finished_at = SET)

\* C10: no model identity is placed on the work queue more than once.
C10_QueueNoDuplicates == NoDup(queue)

\* The rendered DOM sighted, in the first scroll iteration, an identity the
\* network strategy had already queued.
C10_Witness ==
  /\ mpc = "enrich" /\ scrollI = 0
  /\ Range(enrich) \subseteq Range(queue)
  /\ Len(enrich) > 0

\* C13: the status changes only along the lifecycle edges; in particular, as
\* stated here, a job whose status is completed or failed never changes status
\* again, and completed is never written over paused.
C13_TerminalIsFinal ==
  [][/\ status \in Terminal => status' = status
     /\ ~(status = "paused" /\ status' = "completed")]_vars

\* C14: when the listing's hard block marks the crawl job failed, no candidate
\* has been dequeued or scraped and processed_count and failed_count are
\* unchanged.
C14_ListingBlockBeforeAnyWork ==
  [][CNavBlocked =>
       /\ queueIndex' = 0
       /\ processed_count' = 0 /\ failed_count' = 0
       /\ \A w \in Workers : cur'[w] = NoItem]_vars

\* C15: every increment is applied by the store: at every point each counter
\* equals its value at run start (0) plus the increments issued so far by the
\* workers, the discovery loop and the response handler.
C15_NoLostCounterUpdate ==
  /\ discovered_count = issued.discovered
  /\ processed_count = issued.processed
  /\ failed_count = issued.failed

\* Two workers and both discovery strategies have written the counters of one
\* job row.
C15_Witness ==
  /\ kind = "crawl" /\ PoolSize(concurrency) = 2
  /\ respN > 0 /\ discovered_count = 2
  /\ processed_count = 1 /\ failed_count = 1

C17_ScrapeIffFewImages ==
  [][(mpc = "images" /\ mpc' # "images") =>
       /\ mpc' \in {"lscrape", "llabel"}
       /\ mpc' = "lscrape" <=> model_images[candidates[rowI]] < 2]_vars

\* A candidate with exactly one stored image is at the scrape.
C17_Witness ==
  /\ ctlN = 0 /\ mpc = "lscrape"
  /\ model_images[candidates[rowI]] = 1

\* C18: at most one row of model_labels exists per model in every reachable
\* state, also with another label run inserting beside this one; an INSERT for
\* a model that has a row leaves the table unchanged and goes to the per-item
\* failure count.
C18_OneLabelPerItem ==
  /\ [](\A r1, r2 \in model_labels : r1.model_id = r2.model_id => r1 = r2)
  /\ [][(mpc = "linsert" /\ mpc' # "linsert" /\ candidates[rowI] \in Labelled) =>
          (model_labels' = model_labels /\ mpc' = "lfail")]_vars

\* This job's INSERT is about to meet the row another run has stored for the
\* same model.
C18_Witness ==
  /\ kind = "label" /\ ctlN = 0
  /\ mpc = "linsert"
  /\ candidates[rowI] \in Labelled

\* The rows of kind k that the process found unfinished with status queued or
\* running; the most recently created of them.
Recoverable(j) ==
  /\ atBoot[j].finished_at = NULL
  /\ atBoot[j].status \in {"queued", "running"}

LatestRecoverable(j) ==
  /\ Recoverable(j)
  /\ \A i \in JobIds : (Recoverable(i) /\ atBoot[i].kind = atBoot[j].kind) => i <= j

\* C11: after the recovery has run, for each kind the most recently created
\* job found queued or running with finished_at null has been reset to queued
\* and its loop invoked exactly once; no loop is invoked twice; a job found
\* completed is untouched and its loop is not invoked.
C11_RecoveryOfLatest ==
  /\ \A j \in JobIds : invoked[j] <= 1
  /\ bpc = "done" =>
       \A j \in JobIds :
         /\ LatestRecoverable(j) =>
              /\ invoked[j] = 1
              /\ jobs[j].status \in {"queued", "running"}
              /\ jobs[j].finished_at = NULL
         /\ atBoot[j].status = "completed" => (jobs[j] = atBoot[j] /\ invoked[j] = 0)

\* The recovery ran over a completed job and a later job of the same kind that
\* was left running; the running one was reset and its loop invoked.
C11_Witness ==
  /\ bpc = "done"
  /\ \E i, j \in JobIds :
       /\ i < j /\ atBoot[i].kind = atBoot[j].kind
       /\ atBoot[i].status = "completed"
       /\ atBoot[j].status = "running" /\ atBoot[j].finished_at = NULL
       /\ jobs[j].status = "queued" /\ invoked[j] = 1

\* C12: after the recovery has run, every job found non-terminal (queued,
\* running or paused, finished_at null) has had its loop invoked.
C12_EveryNonTerminalRearmed ==
  bpc = "done" =>
    \A j \in JobIds :
      (atBoot[j].status \in {"queued", "running", "paused"} /\ atBoot[j].finished_at = NULL)
        => invoked[j] >= 1

\* C19: a sighting persisted by the producer leaves a populated title, author
\* or cover of the row unchanged; it may only fill a field that is empty.
C19_EnrichmentNeverOverwrites ==
  [][\A it \in Sightings :
       (SightingPersisted(it) /\ HasRow) =>
          /\ Row.title # NULL => item'[1].title = Row.title
          /\ Row.author_name # NULL => item'[1].author_name = Row.author_name
          /\ Row.cover_image_url # NULL =>
                item'[1].cover_image_url = Row.cover_image_url]_vars

\* C20: applying the scraped payload that was applied last once more leaves
\* the row as it is but for updated_at, and leaves the images as they are,
\* each url stored once.
C20_IdempotentUpsert ==
  [][(lastScraped # <<>> /\ ScrapeApplied(lastScraped[1])) =>
       /\ item_images' = item_images
       /\ NoDup(item_images')
       /\ Len(item') = Len(item)
       /\ HasRow => [item'[1] EXCEPT !.updated_at = Row.updated_at] = Row]_vars

\* The same payload, with two images, was applied twice in sequence to an
\* existing row.
C20_Witness ==
  /\ HasRow /\ lastScraped # <<>>
  /\ Len(item_images) = 2 /\ item_images = lastScraped[1].imageUrls
  /\ now = 3 /\ Row.updated_at = 3
  /\ Row.title = lastScraped[1].title /\ Row.title # NULL

\* ---------------------------------------------------------------- C21
\* Worker w lets go of the candidate it dequeued.
ItemLeft(w) == cur[w] # NoItem /\ cur'[w] = NoItem

\* The program counters of the label loop while it handles a row.
RowPcs == {"lcheck", "images", "lscrape", "lpersist", "llabel", "linsert",
           "lcount", "lfail"}

\* The label loop lets go of the row it handles.
RowLeft ==
  /\ kind = "label" /\ mpc \in RowPcs
  /\ rowI' # rowI \/ mpc' \notin RowPcs

\* Exactly one of the two outcome counters advances by one.
OneCounted ==
  \/ processed_count' = processed_count + 1 /\ failed_count' = failed_count
  \/ failed_count' = failed_count + 1 /\ processed_count' = processed_count

\* The worker's catch of the hard block: the job row is written failed with
\* the hard block as last_error and the worker returns, no counter moves.
HardBlockRecorded(w) ==
  /\ status' = "failed" /\ finished_at' = SET
  /\ last_error' = "CLOUDFLARE_BLOCKED"
  /\ wpc'[w] = "done"
  /\ processed_count' = processed_count /\ failed_count' = failed_count

\* C21 as stated: every candidate a crawl worker dequeued, and every row the
\* label loop handled, is let go with processed_count + 1, with
\* failed_count + 1, or (label loop, at its poll) with Cancelled.
C21_CountedOrCancelled ==
  [][/\ \A w \in Workers : ItemLeft(w) => OneCounted
     /\ RowLeft => OneCounted \/ mpc' = "cancelled"]_vars

\* C21 amended: a dequeued candidate is let go with processed_count + 1, with
\* failed_count + 1, or with the hard block recorded on the job row (status
\* failed, last_error the hard block, the worker returns); a row of the label
\* loop is let go with one of the two counters advanced or with Cancelled.
C21_CountedBlockedOrCancelled ==
  [][/\ \A w \in Workers : ItemLeft(w) => OneCounted \/ HardBlockRecorded(w)
     /\ RowLeft => OneCounted \/ mpc' = "cancelled"]_vars

\* A worker is about to record the hard block of the candidate it holds while
\* the other outcome counters have already moved.
C21_Witness ==
  /\ kind = "crawl"
  /\ \E w \in Workers : wpc[w] = "hardblock" /\ cur[w] # NoItem
  /\ processed_count + failed_count > 0

\* ---------------------------------------------------------------- C22
\* C22: clear history sets every job of both kinds whose finished_at is null
\* to failed with finished_at and a distinguishing last_error, deletes every
\* row of models, model_images and model_labels, leaves the finished jobs as
\* they were, and immediately afterwards no job of either kind is queued,
\* running or paused.
C22_ClearHistoryEffect ==
  [][(\E tag \in ClearTags : ClearHistoryAll(tag)) =>
       /\ \A j \in JobIds :
            IF jobs[j].finished_at = NULL
            THEN /\ jobs'[j].status = "failed"
                 /\ jobs'[j].finished_at = SET
                 /\ jobs'[j].last_error \in ClearTags
            ELSE jobs'[j] = jobs[j]
       /\ models' = {} /\ model_labels' = {}
       /\ \A i \in Ids : model_images'[i] = 0
       /\ \A j \in JobIds : jobs'[j].status \notin {"queued", "running", "paused"}]_vars

\* ---------------------------------------------------------------- C23
\* C23: every discovery batch, of the network strategy and of the DOM
\* strategy, and every item's processing is preceded by a poll of the status,
\* so while the status is paused no step of the job adds a candidate to the
\* queue, persists one, or changes discovered_count.
C23_NoDiscoveryWhilePaused ==
  [][(kind = "crawl" /\ status = "paused" /\ ctlN' = ctlN) =>
       /\ queue' = queue
       /\ models' = models
       /\ discovered_count' = discovered_count]_vars

FailureHandled(w) == wpc[w] = "failcount" /\ wpc'[w] # "failcount"

\* The candidates not handed out yet.
Pending(q, i) == {q[k] : k \in (i + 1)..Len(q)}

\* C25: when the scrape of a candidate, or the persistence of its result,
\* fails for a reason other than the hard block, failed_count grows by exactly
\* one, last_error holds the message, the status is left as it was (running
\* stays running), the worker goes on to its next turn, and the candidate
\* cannot be attempted again: it is in the dedup set, not among the pending
\* candidates, and in no worker's hand.
C25_PerItemFailure ==
  [][\A w \in Workers : FailureHandled(w) =>
       /\ failed_count' = failed_count + 1
       /\ processed_count' = processed_count
       /\ last_error' = "ERR"
       /\ status' = status
       /\ wpc'[w] = "check"
       /\ cur[w] \in discoveredIds'
       /\ cur[w] \notin Pending(queue', queueIndex')
       /\ \A v \in Workers : cur'[v] # cur[w]]_vars

\* After a counted failure the job is still running and its one worker is
\* scraping the next candidate.
C25_Witness ==
  /\ kind = "crawl" /\ concurrency = 1 /\ ctlN = 0
  /\ failed_count = 1 /\ processed_count = 0 /\ last_error = "ERR"
  /\ status = "running"
  /\ \E w \in Workers : wpc[w] = "scrape" /\ cur[w] = queue[2]

\* ---------------------------------------------------------------- C26
\* Worker w is handed a candidate.
HandedTo(w) == cur[w] = NoItem /\ cur'[w] # NoItem

\* C26: candidates leave the queue in the order they were appended and each
\* is handed to at most one worker: the queue only grows at its tail, the
\* index never goes back, and every hand-out gives the oldest candidate not
\* handed out yet to exactly one worker and moves the index past it.
C26_FifoHandOut ==
  [][/\ Len(queue) <= Len(queue')
     /\ SubSeq(queue', 1, Len(queue)) = queue
     /\ queueIndex' \in {queueIndex, queueIndex + 1}
     /\ \A w \in Workers : HandedTo(w) =>
          /\ cur'[w] = queue[queueIndex + 1]
          /\ queueIndex' = queueIndex + 1
     /\ queueIndex' = queueIndex + 1 =>
          Cardinality({w \in Workers : HandedTo(w)}) = 1]_vars

\* Two workers hold the two queued candidates, each its own, in queue order.
C26_Witness ==
  /\ kind = "crawl" /\ queueIndex = 2
  /\ \E w, v \in Workers :
       /\ w # v
       /\ cur[w] = queue[1] /\ cur[v] = queue[2]
       /\ wpc[w] = "scrape" /\ wpc[v] = "scrape"

\* ---------------------------------------------------------------- C27
\* The cap is reached, or the iteration in hand is the last one allowed.
CapOrScrollsReached(seen, i) ==
  Cardinality(seen) >= limitModels \/ i + 1 >= maxScrolls

\* The producer leaves the tail of a scroll iteration.
IterationEnds ==
  /\ kind = "crawl" /\ mpc \in {"eval", "enrich", "dcount"}
  /\ mpc' \in {"dcheck", "closing"}

\* C27: in every state the dedup set holds at most limitModels identities and
\* so the queue at most limitModels candidates; the producer ends an
\* iteration with end-of-input exactly when the cap is reached or maxScrolls
\* iterations are performed, and with a further iteration otherwise.
C27_DiscoveryCap ==
  /\ [](/\ Cardinality(discoveredIds) <= limitModels
        /\ Len(queue) <= limitModels
        /\ scrollI < maxScrolls
        /\ discoveryDone => CapOrScrollsReached(discoveredIds, scrollI))
  /\ [][IterationEnds =>
          IF CapOrScrollsReached(discoveredIds', scrollI)
          THEN discoveryDone' /\ mpc' = "closing" /\ scrollI' = scrollI
          ELSE ~discoveryDone' /\ mpc' = "dcheck" /\ scrollI' = scrollI + 1]_vars

\* End-of-input after a second iteration that filled the dedup set to the cap.
C27_Witness ==
  /\ kind = "crawl" /\ discoveryDone
  /\ scrollI = 1 /\ maxScrolls >= 2
  /\ limitModels = 2
  /\ Cardinality(discoveredIds) = limitModels
  /\ Len(queue) = limitModels

\* ---------------------------------------------------------------- C28
\* C28: a failure while the label loop handles a candidate (the scrape, its
\* hard block included, the labeling service, the insert) is per-item: it adds
\* one to failed_count, sets last_error, writes no status and the loop goes
\* on with the next row; no step of the loop over the rows writes the status,
\* the loop leaves the rows only with Cancelled or to write completed, so a
\* label job that is not cancelled ends completed even if every row failed.
C28_LabelFailuresPerItem ==
  [][kind = "label" =>
       /\ (mpc = "lfail" /\ mpc' # "lfail") =>
            /\ failed_count' = failed_count + 1
            /\ processed_count' = processed_count
            /\ last_error' = "ERR"
            /\ mpc' \in {"lcheck", "lcomplete"}
            /\ mpc' = "lcheck" => rowI' = rowI + 1
       /\ (mpc \in RowPcs /\ ctlN' = ctlN) => status' = status
       /\ (mpc \in RowPcs /\ mpc' \notin RowPcs) => mpc' \in {"lcomplete", "cancelled"}
       /\ (mpc = "lcomplete" /\ mpc' # "lcomplete") =>
            /\ status' = "completed"
            /\ processed_count + failed_count = Len(candidates)]_vars

\* The job ended completed with every one of its two candidates failed.
C28_Witness ==
  /\ kind = "label" /\ ctlN = 0
  /\ mpc = "done" /\ status = "completed"
  /\ Len(candidates) = 2
  /\ failed_count = 2 /\ processed_count = 0
  /\ last_error = "ERR"

\* ---------------------------------------------------------------- C29
\* C29: the candidate list of a label job is exactly the models without a
\* row in model_labels at the time of the selection, each once, cut at the
\* limit when one is configured; total_count is written once, with the
\* length of the list, before the first candidate is handled; afterwards
\* neither the list nor total_count changes, whatever happens to the store.
C29_SelectionFixedAtStart ==
  /\ [][kind = "label" =>
          /\ (mpc = "select" /\ mpc' # "select") =>
               /\ NoDup(candidates')
               /\ Range(candidates') \subseteq models \ Labelled
               /\ Len(candidates') =
                    IF limitModels = 0 THEN Cardinality(models \ Labelled)
                    ELSE Min(limitModels, Cardinality(models \ Labelled))
          /\ mpc # "select" => candidates' = candidates
          /\ (mpc = "total" /\ mpc' # "total") => total_count' = Len(candidates)
          /\ mpc # "total" => total_count' = total_count]_vars
  /\ []((kind = "label" /\ mpc \in RowPcs \cup {"lcomplete", "done"}) =>
          total_count = Len(candidates))

\* The loop stands at its second row, which another run has labelled since
\* the selection; the list and total_count still have both rows.
C29_Witness ==
  /\ kind = "label" /\ mpc = "lcheck" /\ rowI = 2
  /\ candidates[2] \in Labelled
  /\ Len(candidates) = 2 /\ total_count = 2

\* ---------------------------------------------------------------- C30
\* C30: whenever a crawl worker increments processed_count for a candidate,
\* the store holds the models row of the scraped identity (with the returned
\* fields and image list), under every interleaving of the worker with the
\* producer's persist of the same candidate; no request of the control
\* surface is involved.
C30_PersistedBeforeCounted ==
  [][\A w \in Workers :
       (kind = "crawl" /\ ctlN = 0 /\ wpc[w] = "count" /\ wpc'[w] # "count") =>
         /\ processed_count' = processed_count + 1
         /\ cur[w] \in models]_vars

\* ---------------------------------------------------------------- C31
\* C31: the execution loop writes running only over queued: when the loop
\* starts on a row that is no longer queued (failed by clear history, or
\* paused, between scheduling and the loop's start) it leaves the status as
\* it is and does no work.
C31_RunningOnlyFromQueued ==
  [][(mpc = "idle" /\ mpc' # "idle") =>
       IF status = "queued" THEN status' = "running"
       ELSE status' = status /\ mpc' \notin {"ctx", "lctx"}]_vars

\* ---------------------------------------------------------------- C32
\* C32: nothing is appended to the work queue after end-of-input has been
\* signalled, and so, when a crawl job has reached completed in a run without
\* hard block (here: without any failure and any control request), every
\* queued candidate has been handed out and discovered_count equals
\* processed_count + failed_count.
C32_NoPushAfterEndOfInput ==
  /\ [][discoveryDone => queue' = queue]_vars
  /\ []((/\ kind = "crawl" /\ mpc = "done" /\ status = "completed"
         /\ ctlN = 0 /\ last_error = NULL) =>
          /\ queueIndex = Len(queue)
          /\ discovered_count = processed_count + failed_count)

\* ---------------------------------------------------------------- C33
\* C33: for a crawl job processed_count + failed_count <= discovered_count
\* in every reachable state, under every interleaving of the workers with
\* the producer's push, persist and counter update.
C33_HandledAtMostDiscovered ==
  kind = "crawl" => processed_count + failed_count <= discovered_count

\* ---------------------------------------------------------------- C34
\* C34: for a label job processed_count + failed_count <= total_count in
\* every reachable state, also after the job was interrupted by a restart of
\* the process and run again by the recovery.
C34_LabelHandledAtMostTotal ==
  kind = "label" => processed_count + failed_count <= total_count

\* ---------------------------------------------------------------- C35
\* C35: every write of a terminal status, by a job's loop or by clear
\* history, sets finished_at in the same write, and so in every reachable
\* state a status of completed or failed comes with a non-null finished_at,
\* whatever pause and resume requests are served.
C35_TerminalHasFinishedAt ==
  /\ [](status \in Terminal => finished_at # NULL)
  /\ [][(status' \in Terminal /\ status' # status) => finished_at' = SET]_vars

\* A job that was paused or resumed on the way and then failed on a hard
\* block.
C35_Witness ==
  /\ kind = "crawl" /\ ctlN > 0
  /\ status = "failed" /\ last_error = "CLOUDFLARE_BLOCKED"
  /\ finished_at = SET

\* ---------------------------------------------------------------- C36
\* A write to the row of job j: by its execution loop, or by a pause or
\* resume request for its id.
OwnWrite(j) ==
  \/ PauseJob(j) \/ ResumeJob(j)
  \/ JobLoopStarts(j) \/ JobLoopCounts(j) \/ JobLoopFails(j)
  \/ \E s \in {"completed", "failed"} : JobLoopEnds(j, s)

\* C36: the execution loop of a job, and a pause or resume request for a job
\* id, change that job's row only: every other row of crawl_jobs and
\* label_jobs is left as it was, so a crawl job and a label job that run side
\* by side never alter each other's record.
C36_JobIsolation ==
  [][\A j \in JobIds : OwnWrite(j) =>
       \A i \in JobIds \ {j} : jobs'[i] = jobs[i]]_vars

\* A crawl job and a label job whose loops both run: the one was paused, the
\* other has counted an item and is still running.
C36_Witness ==
  /\ kind = "clear"
  /\ \E i, j \in JobIds :
       /\ jobs[i].kind = "crawl" /\ jobs[j].kind = "label"
       /\ invoked[i] = 1 /\ invoked[j] = 1
       /\ jobs[i].status = "paused"
       /\ jobs[j].status = "running" /\ jobs[j].processed_count = 1

\* ---------------------------------------------------------------- C37
\* C37: within one process lifetime at most one execution loop is scheduled
\* for a job id: once by the create request for the new id, or once by the
\* recovery for at most one pre-existing job per kind.
C37_OneLoopPerJob ==
  \A j \in DOMAIN invoked : invoked[j] <= 1

\* ---------------------------------------------------------------- C38
\* C38: in every reachable state the image rows of an Item have distinct
\* indexes that form 0..n-1 and all come from one scraped payload, also when
\* two writers refresh the same Item side by side with the non-transactional
\* DELETE then INSERT.
C38_ImageCollectionIntegrity ==
  /\ \A r1, r2 \in image_rows : r1.idx = r2.idx => r1 = r2
  /\ {r.idx : r \in image_rows} = 0..(Cardinality(image_rows) - 1)
  /\ \A r1, r2 \in image_rows : r1.payload = r2.payload

\* Both writers deleted before either inserted; the first INSERT stored its
\* two rows and the second one failed on the primary key.
C38_Witness ==
  /\ kind = "images"
  /\ \E w, v \in Writers :
       /\ refresh[w].pc = "done" /\ refresh[v].pc = "failed"
       /\ refresh[v].urls # refresh[w].urls
       /\ image_rows = ImageRows(refresh[w].urls, refresh[w].tag)
  /\ Cardinality(image_rows) = 2

\* ---------------------------------------------------------------- C39
\* C39: the number of crawl workers started is the configured concurrency
\* clamped to 1..5, and is 1 when the configured value is 0, missing or not
\* a number.
C39_PoolSizeClamped ==
  spawned # <<>> =>
    spawned[1] = IF configured.t # "number" \/ configured.n = 0 THEN 1
                 ELSE IF configured.n < 1 THEN 1
                 ELSE IF configured.n > PoolCap THEN PoolCap
                 ELSE configured.n

\* A job row without config.concurrency started one worker.
C39_Witness ==
  kind = "pool" /\ configured.t = "undefined" /\ spawned = <<1>>

====
